---- MODULE Spec2Model ----
(***************************************************************************)
(* Interceptor chain of libs/core/interceptor: Chain composes an ordered   *)
(* list of interceptors around a terminal handler; invoking the pipeline   *)
(* runs the layers as nested calls.  The model executes Chain's loop and   *)
(* the nested calls step by step on an explicit call stack.                *)
(***************************************************************************)
EXTENDS Integers, Sequences, FiniteSets, TLC

\* ---------------------------------------------------------------- bounds
MaxN == 3                 \* longest interceptor list passed to Chain
MaxInvocations == 2       \* invocations of one pipeline value
MaxBuilds == 2            \* calls of Chain with the same arguments
MaxConcN == 2             \* longest interceptor list of the concurrent runs
MaxResolved == 2          \* longest interceptor list a resolver returns
MaxDepth == 3             \* most nested calls of NewInterceptorError
MaxControllers == 3       \* longest controller slice given to RegisterRouters
MaxLoaders == 3           \* most loaders of a Config
MaxLoads == 2             \* calls of Config.Load on one Config
MaxValidators == 3        \* most validators of a CompositeValidator
MaxWrites == 2            \* writes of the caller to its slice after Chain returned

\* ---------------------------------------------------------------- values
\* A function value (NextFunc): 0 is the terminal handler passed to Chain,
\* j > 0 is the closure closures[j] created by Chain, -1 is a nil func.
H == 0
NilFunc == -1

\* error values: nil, or a chain of error objects (outermost first)
NilErr == << >>
NewError(msg) == << [type |-> "errorString", name |-> msg] >>

\* result values (any): nil or a string
NilResult == [nil |-> TRUE, s |-> ""]
Str(s) == [nil |-> FALSE, s |-> s]

Pair(r, e) == [result |-> r, err |-> e]
NoRet == Pair(NilResult, NilErr)

\* context.Context values
NilContext == [isNil |-> TRUE, cancelled |-> FALSE, values |-> {}]
Background == [isNil |-> FALSE, cancelled |-> FALSE, values |-> {}]
CancelCtx == [isNil |-> FALSE, cancelled |-> TRUE, values |-> {}]
WithValue(parent, key) == [parent EXCEPT !.values = @ \cup {key}]

TestMeta(u, r) == [UserID |-> u, Role |-> r]

NewUniversalContext(c, protocol, method, meta) ==
    [Context  |-> IF c.isNil THEN Background ELSE c,
     Protocol |-> protocol,
     Method   |-> method,
     Meta     |-> meta]

\* the Request Contexts the callers create
Contexts ==
    { NewUniversalContext(NilContext, "test", "method", TestMeta("", "")),
      NewUniversalContext(NilContext, "http", "GET /admin", TestMeta("user123", "admin")),
      NewUniversalContext(NilContext, "http", "GET /admin", TestMeta("user123", "user")),
      NewUniversalContext(NilContext, "http", "GET /admin", TestMeta("", "admin")),
      NewUniversalContext(CancelCtx, "http", "GET /", TestMeta("", "")),
      NewUniversalContext(Background, "http", "GET /", TestMeta("", "")),
      NewUniversalContext(WithValue(Background, "interceptor-key"), "grpc", "GetUser",
                          TestMeta("user123", "")) }

\* ---------------------------------------------------------- interceptors
InterceptorKinds == {"pass", "fail", "short", "modify", "auth", "cancel", "setvalue"}
HandlerKinds == {"ok", "value"}

Interceptor(k, kind) == [id |-> k, kind |-> kind]
NoInterceptor == Interceptor(-1, "none")

\* all argument lists  interceptors[0..n-1]  with n <= MaxN; the interceptor
\* at position k is the object with id k
InterceptorLists ==
    UNION { { [j \in 1..n |-> Interceptor(j - 1, ks[j])] : ks \in [1..n -> InterceptorKinds] }
            : n \in 0..MaxN }

\* whether the interceptor's pre-next logic decides to call next(ctx)
CallsNext(ic, c) ==
    CASE ic.kind = "pass"   -> TRUE
      [] ic.kind = "modify" -> TRUE
      [] ic.kind = "fail"   -> FALSE
      [] ic.kind = "short"  -> FALSE
      [] ic.kind = "auth"   -> c.Meta.UserID # "" /\ c.Meta.Role = "admin"
      [] ic.kind = "cancel" -> ~c.Context.cancelled
      [] ic.kind = "setvalue" -> TRUE
      [] ic.kind = "twice"  -> TRUE
      [] ic.kind = "retry"  -> TRUE

\* whether the interceptor, next(ctx) having returned r to it for the m-th
\* time, calls next(ctx) again: "twice" always calls it two times, "retry"
\* calls it again after an error, three times at most
CallsAgain(ic, m, r) ==
    CASE ic.kind = "twice" -> m < 2
      [] ic.kind = "retry" -> r.err # NilErr /\ m < 3
      [] OTHER -> FALSE

\* the Request Context after the interceptor's pre-next logic:
\* ctx.Context = context.WithValue(ctx.Context, key, value)
Key(ic) == "key" \o ToString(ic.id + 1)
PreContext(ic, c) ==
    IF ic.kind = "setvalue"
    THEN [c EXCEPT !.Context = WithValue(WithValue(@, "interceptor-key"), Key(ic))]
    ELSE c

\* what the interceptor returns when it does not call next
ShortCircuitReturn(ic, c) ==
    CASE ic.kind = "fail"   -> Pair(NilResult, NewError("interceptor error"))
      [] ic.kind = "short"  -> Pair(Str("short-circuit-result"), NilErr)
      [] ic.kind = "auth"   -> IF c.Meta.UserID = ""
                               THEN Pair(NilResult, NewError("unauthorized"))
                               ELSE Pair(NilResult, NewError("forbidden"))
      [] ic.kind = "cancel" -> Pair(NilResult, NewError("context canceled"))

\* what the interceptor returns after next(ctx) returned r
PostReturn(ic, r) ==
    CASE ic.kind = "modify" ->
            IF r.err # NilErr
            THEN Pair(NilResult, r.err)
            ELSE Pair(Str(r.result.s \o "-modified-" \o ToString(ic.id)), NilErr)
      [] OTHER -> r

\* what the terminal handler returns
HandlerReturn(hk, c) ==
    CASE hk = "ok"    -> Pair(Str("result"), NilErr)
      [] hk = "value" -> IF "interceptor-key" \notin c.Context.values
                         THEN Pair(NilResult, NewError("context value not propagated"))
                         ELSE Pair(Str("interceptor-value"), NilErr)
      [] hk = "attach" -> Pair(Str("result"), NilErr)

\* the Request Context after the terminal handler ran: the "attach" handler
\* does  ctx.Context = context.WithValue(ctx.Context, "handler-key", value)
HandlerContext(hk, c) ==
    IF hk = "attach" THEN [c EXCEPT !.Context = WithValue(@, "handler-key")] ELSE c

\* ------------------------------------------------------------------ state
VARIABLES
    terminal,      \* the handler argument of Chain (its kind)
    interceptors,  \* the interceptors argument of Chain
    cpc,           \* position in Chain: "entry", "loop", "returned"
    i,             \* Chain's loop variable
    handler,       \* Chain's local variable handler
    closures,      \* the closures Chain has created
    pipeline,      \* the function value Chain returned
    ctx,           \* the Request Context of the current invocation
    stack,         \* call stack of the current invocation
    calls,         \* log of the current invocation (enter / handler / exit)
    rets,          \* what each layer of the current invocation returned
    ret,           \* the pair the caller received
    status,        \* "idle", "running", "returned", "panic"
    ninv,          \* number of invocations started
    nret,          \* number of pairs the caller received in this invocation
    nbuild,        \* number of calls of Chain
    ctx0,          \* the Request Context as the caller created it
    seen,          \* the Request Context each layer received, in call order
    parked,        \* the invocation of the goroutine that is not scheduled
    prev,          \* how the invocation before the current one ended
    exec,          \* the running call of ExecutePipeline
    werr,          \* an error being wrapped by NewInterceptorError and unwrapped
    reg,           \* the running call of RegisterRouter
    regs,          \* the running call of RegisterRouters
    cfg,           \* a Config[T] and its running call of Load
    mrg,           \* a call of a merge function
    cv,            \* a CompositeValidator and its running call of Validate
    caller         \* the slice the caller passed to Chain and its later writes to it

extVars == <<regs, cfg, mrg, cv, caller>>
vars == <<terminal, interceptors, cpc, i, handler, closures, pipeline,
          ctx, stack, calls, rets, ret, status, ninv, nret, nbuild, ctx0, seen,
          parked, prev, exec, werr, reg, extVars>>

chainVars == <<terminal, interceptors, cpc, i, handler, closures, pipeline, nbuild>>
callVars == <<ctx, stack, calls, rets, ret, status, ninv, nret, ctx0, seen, prev>>
auxVars == <<parked, exec, werr, reg, extVars>>

\* the state of one invocation (everything a goroutine running it owns)
Invocation(c, stk, cl, rs, r, st, nr, c0, sn) ==
    [ctx |-> c, stack |-> stk, calls |-> cl, rets |-> rs, ret |-> r,
     status |-> st, nret |-> nr, ctx0 |-> c0, seen |-> sn]

IdleInvocation ==
    LET c == NewUniversalContext(NilContext, "", "", TestMeta("", ""))
    IN Invocation(c, << >>, << >>, << >>, NoRet, "idle", 0, c, << >>)

n == Len(interceptors)

\* ----------------------------------------------------------------- bridge
MockNativeContext(path, method, user) == [Path |-> path, Method |-> method, UserID |-> user]
MockMeta(path, user) == [RequestPath |-> path, UserID |-> user]

NativeContexts ==
    { MockNativeContext("/api/users", "GET", ""),
      MockNativeContext("/api/users", "GET", "user123"),
      MockNativeContext("", "", "") }

\* a BaseBridge; a function field is TRUE when the function is not nil
BaseBridge(em, gm, os, oe) ==
    [Protocol |-> "http", ExtractMetaFn |-> em, GetMethodFn |-> gm,
     OnSuccessFn |-> os, OnErrorFn |-> oe]

Bridges == { BaseBridge(em, gm, os, oe) : em, gm, os, oe \in BOOLEAN }

ExtractMeta(b, nc) ==
    IF b.ExtractMetaFn THEN MockMeta(nc.Path, nc.UserID) ELSE MockMeta("", "")

CreateUniversalContext(b, nc) ==
    NewUniversalContext(NilContext, b.Protocol,
                        IF b.GetMethodFn THEN nc.Method \o " " \o nc.Path ELSE "",
                        ExtractMeta(b, nc))

\* what the hook's function records; nothing when the function is nil
OnSuccess(b, nc, result) ==
    IF b.OnSuccessFn THEN << [fn |-> "OnSuccessFn", nativeCtx |-> nc, arg |-> result] >>
    ELSE << >>

OnError(b, nc, err) ==
    IF b.OnErrorFn THEN << [fn |-> "OnErrorFn", nativeCtx |-> nc, arg |-> err] >>
    ELSE << >>

\* interceptors whose logic reads no field of a particular Meta type
BridgeKinds == {"pass", "fail", "short", "modify", "cancel", "setvalue"}

SimpleResolver(ics) == [Interceptors |-> ics]

Resolvers ==
    { SimpleResolver(l) : l \in { ics \in InterceptorLists :
                                     /\ Len(ics) <= MaxResolved
                                     /\ \A j \in 1..Len(ics) : ics[j].kind \in BridgeKinds } }

Resolve(s, c, handlerKey) == s.Interceptors

HandlerKeys == {"/api/users", ""}

\* the arguments and the locals of one call of ExecutePipeline
Exec(pc, b, r, nc, key, bh) ==
    [pc |-> pc, bridge |-> b, resolver |-> r, nativeCtx |-> nc, handlerKey |-> key,
     businessHandler |-> bh,
     uCtx |-> NewUniversalContext(NilContext, "", "", MockMeta("", "")),
     resolved |-> << >>, hooks |-> << >>, captured |-> << >>, log |-> << >>,
     out |-> NoRet]

NoExec ==
    Exec("none", BaseBridge(FALSE, FALSE, FALSE, FALSE), SimpleResolver(<< >>),
         MockNativeContext("", "", ""), "", "ok")

\* ----------------------------------------------------------------- errors
\* &InterceptorError{InterceptorName: name, Err: err}; an error value lists
\* its chain of error objects, outermost first
InterceptorError(name, err) == << [type |-> "InterceptorError", name |-> name] >> \o err

\* a *CustomError, possibly a nil pointer held in a non-nil error value
CustomError(msg) == << [type |-> "CustomError", name |-> msg] >>

NewInterceptorError_NoNilCheck(name, err) == InterceptorError(name, err)
NewInterceptorError(name, err) ==
    IF err = NilErr THEN NilErr ELSE InterceptorError(name, err)

IsInterceptorError(e) == e # NilErr /\ Head(e).type = "InterceptorError"

\* (e *InterceptorError) Unwrap() returns e.Err
Unwrap_Cause(e) == << e[Len(e)] >>
Unwrap(e) == Tail(e)

InterceptorNames == {"Interceptor1", "Interceptor2", "Interceptor3"}

BaseErrors ==
    { NilErr,
      NewError("base error"),
      NewError("test error"),
      CustomError("not found"),
      CustomError("<nil>"),
      InterceptorError("ValidationInterceptor", NewError("validation failed")) }

\* one error: the base, the names it was wrapped with, the wrapped value, the
\* value reached by unwrapping, and the last call of NewInterceptorError
Wrapping(pc, base) ==
    [pc |-> pc, base |-> base, names |-> << >>, wrapped |-> base, cur |-> base,
     steps |-> 0, last |-> [name |-> "", err |-> NilErr, out |-> NilErr, n |-> 0]]

NoWrap == Wrapping("none", NilErr)

\* ------------------------------------------------------------ controllers
\* a method of a controller type: its name, whether the name is exported,
\* and the types of its parameters and results (receiver not counted)
Method(name, exported, params, results) ==
    [name |-> name, exported |-> exported, params |-> params, results |-> results]

\* the methods a controller type may declare, in alphabetical order of name,
\* the order in which reflection lists the exported ones
MethodsByName ==
    << Method("CreateUser", TRUE, <<"context.Context">>, << >>),
       Method("GetUsers", TRUE, <<"context.Context">>, << >>),
       Method("InvalidMethod", TRUE, << >>, << >>),
       Method("InvalidMethodMultiParams", TRUE, <<"context.Context", "string">>, << >>),
       Method("InvalidMethodWithReturn", TRUE, <<"context.Context">>, <<"string">>),
       Method("SetName", TRUE, <<"string">>, << >>),
       Method("UpdateUser", TRUE, <<"context.Context">>, << >>),
       Method("privateMethod", FALSE, <<"context.Context">>, << >>) >>

MethodNames == { MethodsByName[j].name : j \in 1..Len(MethodsByName) }

\* what a method does when called: return, panic(v) with a string, panic(nil)
Behaviours == {"return", "intentional panic for testing", "nil"}

\* a controller: the methods its type declares and what each does when called
Controller(isNil, names, does) == [isNil |-> isNil, methods |-> names, does |-> does]
NilController == Controller(TRUE, {}, [m \in {} |-> "return"])

\* the names of the methods with parameters (context.Context) and no result
ContextMethods ==
    { MethodsByName[j].name : j \in { k \in 1..Len(MethodsByName) :
          /\ MethodsByName[k].params = <<"context.Context">>
          /\ MethodsByName[k].results = << >> } }

Controllers ==
    {NilController} \cup
    UNION { { Controller(FALSE, names, does) :
                 does \in [names \cap ContextMethods -> Behaviours] }
            : names \in SUBSET MethodNames }

\* what calling the method named name of controller c does
Does(c, name) == IF name \in DOMAIN c.does THEN c.does[name] ELSE "return"

\* reflect: value.NumMethod(), value.Method(i), valueType.Method(i).Name
MethodTable(c) ==
    SelectSeq(MethodsByName, LAMBDA m : m.name \in c.methods /\ m.exported)
NumMethod(c) == Len(MethodTable(c))

\* NumIn() == 1, NumOut() == 0, In(0) == context.Context
isValidDynamicMethod_NoOutCheck(m) ==
    Len(m.params) = 1 /\ m.params[1] = "context.Context"
isValidDynamicMethod(m) ==
    /\ Len(m.params) = 1
    /\ Len(m.results) = 0
    /\ m.params[1] = "context.Context"

\* the value recover() returns for a panic (with go 1.21 panic(nil) panics
\* with a *runtime.PanicNilError)
Recover(v) ==
    IF v = "nil" THEN "panic called with nil argument (obsolete use of panic)" ELSE v

\* fmt.Errorf("method %s.%s panicked: %v", valueType.String(), methodName, r)
PanicErr(name, r) ==
    NewError("method *adaptertemplate.testController." \o name \o " panicked: " \o r)

\* if panicErr != nil { return panicErr }
FailFast_Never(e) == FALSE
FailFast(e) == e # NilErr

Registering(pc, c, given) ==
    [pc |-> pc, controller |-> c, given |-> given, ctx |-> given, i |-> 0,
     called |-> << >>, panicErr |-> NilErr, out |-> NilErr]

NoRegister == Registering("none", NilController, NilContext)

\* ---------------------------------------------------- controller slices
\* a controller whose type declares every method, none panicking
TestController == Controller(FALSE, MethodNames, [m \in ContextMethods |-> "return"])

\* the controllers of the slices: nil, &testController{}, one with
\* shouldPanic (CreateUser panics), one whose last valid method panics, and
\* one without any valid method
SliceControllers ==
    { NilController,
      TestController,
      [TestController EXCEPT !.does["CreateUser"] = "intentional panic for testing"],
      [TestController EXCEPT !.does["UpdateUser"] = "nil"],
      Controller(FALSE, {"InvalidMethod", "SetName"}, [m \in {} |-> "return"]) }

ControllerSlices ==
    UNION { [1..len -> SliceControllers] : len \in 0..MaxControllers }

\* fmt.Errorf("controller[%d]: %w", i, err)
ControllerErr(k, err) ==
    << [type |-> "wrapError", name |-> "controller[" \o ToString(k) \o "]"] >> \o err

\* if err := RegisterRouter(controller, ctx); err != nil { return ... }
StopAtError_Never(err) == FALSE
StopAtError(err) == err # NilErr

RegisteringAll(pc, cs, given) ==
    [pc |-> pc, controllers |-> cs, given |-> given, ctx |-> given, i |-> 0,
     called |-> << >>, out |-> NilErr]

NoRegisterAll == RegisteringAll("none", << >>, NilContext)

\* ------------------------------------------------------------------ merge
\* Go values as reflection sees them: a kind and the content of that kind.
\* A nil pointer keeps the zero value of its element type in elem, a nil
\* slice has no elements and a nil map no keys.
VInt(v) == [kind |-> "int", v |-> v]
VString(v) == [kind |-> "string", v |-> v]
VBool(v) == [kind |-> "bool", v |-> v]
Ptr(elem) == [kind |-> "ptr", nil |-> FALSE, elem |-> elem]
NilPtr(zero) == [kind |-> "ptr", nil |-> TRUE, elem |-> zero]
Slice(elems) == [kind |-> "slice", nil |-> FALSE, elems |-> elems]
NilSlice == [kind |-> "slice", nil |-> TRUE, elems |-> << >>]
Map(m) == [kind |-> "map", nil |-> FALSE, m |-> m]
NilMap == [kind |-> "map", nil |-> TRUE, m |-> << >>]
Struct(f, private) == [kind |-> "struct", f |-> f, private |-> private]

\* reflect.Value.IsZero
RECURSIVE IsZero(_)
IsZero(x) ==
    CASE x.kind = "int"    -> x.v = 0
      [] x.kind = "string" -> x.v = ""
      [] x.kind = "bool"   -> x.v = FALSE
      [] x.kind = "ptr"    -> x.nil
      [] x.kind = "slice"  -> x.nil
      [] x.kind = "map"    -> x.nil
      [] x.kind = "struct" -> \A name \in DOMAIN x.f : IsZero(x.f[name])

\* dstField.CanSet(): false for the unexported fields of a struct
CanSet(x, name) == name \notin x.private

\* case reflect.Slice:  if src.Len() > 0 { dst.Set(src) }
SliceOverrides(x) == Len(x.elems) > 0

\* default:  if !src.IsZero() { dst.Set(src) }
ScalarOverrides_Always(x) == TRUE
ScalarOverrides(x) == ~IsZero(x)

\* the value deepMerge leaves in dst
RECURSIVE deepMerge(_, _)
deepMerge(dst, src) ==
    CASE src.kind = "struct" ->
            [dst EXCEPT !.f =
                [name \in DOMAIN src.f |->
                    IF ~CanSet(dst, name) THEN dst.f[name]
                    ELSE IF ~IsZero(src.f[name]) THEN deepMerge(dst.f[name], src.f[name])
                    ELSE dst.f[name]]]
      [] src.kind = "slice" ->
            IF SliceOverrides(src) THEN src ELSE dst
      [] src.kind = "map" ->
            IF IsZero(src) THEN dst
            ELSE LET d == IF dst.nil THEN Map(<< >>) ELSE dst
                     merged(key) ==
                        IF key \in DOMAIN d.m /\ ~IsZero(d.m[key])
                        THEN IF src.m[key].kind \in {"map", "struct"}
                             THEN deepMerge(d.m[key], src.m[key])
                             ELSE src.m[key]
                        ELSE src.m[key]
                 IN Map([key \in DOMAIN d.m \cup DOMAIN src.m |->
                            IF key \in DOMAIN src.m THEN merged(key) ELSE d.m[key]])
      [] src.kind = "ptr" ->
            IF src.nil THEN dst
            ELSE Ptr(deepMerge(dst.elem, src.elem))
      [] OTHER ->
            IF ScalarOverrides(src) THEN src ELSE dst

\* DefaultMerge(dst, src): the value left in *dst; the error is always nil,
\* dst and src having the same type T
DefaultMerge(dst, src) == deepMerge(dst, src)

\* ShallowMerge(dst, src)
ShallowMerge(dst, src) == IF ~IsZero(src) THEN src ELSE dst

\* the configuration type of the merges
ServerConfig(host, port) ==
    Struct([Host |-> VString(host), Port |-> VInt(port)], {})

TestConfig(server, timeout, tags, features, note) ==
    Struct([Server |-> server, Timeout |-> timeout, Tags |-> tags,
            Features |-> features, note |-> VString(note)], {"note"})

ZeroConfig == TestConfig(ServerConfig("", 0), NilPtr(VInt(0)), NilSlice, NilMap, "")

\* ----------------------------------------------------------------- config
\* a MockLoader: Load returns err if it is not nil, else copies data to *dst
MockLoader(data, err) == [data |-> data, err |-> err]

Features(f1, f2) == Map([feature1 |-> VBool(f1), feature2 |-> VBool(f2)])

\* the loaders: a base file, an override of the port, a source that loads
\* zero values explicitly (pointer to 0, empty slice, feature switched off),
\* a source with a privileged port, and a source that fails
Loaders ==
    { MockLoader(TestConfig(ServerConfig("localhost", 8080), Ptr(VInt(30)),
                            Slice(<<"tag1", "tag2">>), Features(TRUE, TRUE), "n"), NilErr),
      MockLoader(TestConfig(ServerConfig("", 9090), NilPtr(VInt(0)), NilSlice, NilMap, ""),
                 NilErr),
      MockLoader(TestConfig(ServerConfig("", 0), Ptr(VInt(0)), Slice(<< >>),
                            Map([feature2 |-> VBool(FALSE)]), ""), NilErr),
      MockLoader(TestConfig(ServerConfig("", 80), NilPtr(VInt(0)), Slice(<<"tag3">>),
                            NilMap, ""), NilErr),
      MockLoader(ZeroConfig, NewError("load error")) }

LoaderLists == UNION { [1..len -> Loaders] : len \in 0..MaxLoaders }

\* loader.Load(temp) with temp = new(T): the error and the value of *temp
LoaderLoad_IgnoreErr(loader) == [err |-> NilErr, temp |-> loader.data]
LoaderLoad(loader) ==
    IF loader.err # NilErr THEN [err |-> loader.err, temp |-> ZeroConfig]
    ELSE [err |-> NilErr, temp |-> loader.data]

\* the merge functions: DefaultMerge, and a custom one that rejects the
\* source whose port is 9090 and otherwise is DefaultMerge
MergeFuncs == {"DefaultMerge", "customMerge"}

MergeCall(fn, dst, src) ==
    IF fn = "customMerge" /\ src.f.Server.f.Port.v = 9090
    THEN [err |-> NewError("merge error"), dst |-> dst]
    ELSE [err |-> NilErr, dst |-> DefaultMerge(dst, src)]

\* the validators: none, or ServerValidator
Validators == {"nil", "ServerValidator"}

Validate(v, c) ==
    IF c.f.Server.f.Port.v < 1024 \/ c.f.Server.f.Port.v > 65535
    THEN NewError("server port must be between 1024 and 65535")
    ELSE IF c.f.Server.f.Host.v = "" THEN NewError("server host cannot be empty")
    ELSE NilErr

\* fmt.Errorf(format + ": %w", err)
Wrapf(msg, err) == << [type |-> "wrapError", name |-> msg] >> \o err

\* New(loaders...): a Config with the default merge and no validator; the
\* other fields are the locals of Load and a record of the calls it made
New(pc, loaders) ==
    [pc |-> pc, loaders |-> loaders, mergeFunc |-> "DefaultMerge", validator |-> "nil",
     data |-> ZeroConfig, accumulated |-> ZeroConfig, temp |-> ZeroConfig, i |-> 0,
     log |-> << >>, out |-> NilErr, returned |-> "none", nload |-> 0,
     before |-> ZeroConfig, used |-> "DefaultMerge", usedValidator |-> "nil"]

NoConfig == New("none", << >>)

\* ------------------------------------------------------------ merge calls
\* the values a merge is called with: every combination of zero and
\* non-zero fields, nil, empty and filled slices and maps, nil pointers and
\* pointers to zero
ConfigValues(note) ==
    { TestConfig(ServerConfig(host, port), timeout, tags, features, note) :
        host \in {"", "localhost"}, port \in {0, 8080},
        timeout \in {NilPtr(VInt(0)), Ptr(VInt(0)), Ptr(VInt(30))},
        tags \in {NilSlice, Slice(<< >>), Slice(<<"tag1">>)},
        features \in {NilMap, Map([feature1 |-> VBool(TRUE)]),
                      Map([feature1 |-> VBool(FALSE)]), Features(TRUE, FALSE)} }

Merging(pc, fn, dst, src) == [pc |-> pc, fn |-> fn, before |-> dst, dst |-> dst, src |-> src]

NoMerge == Merging("none", "DefaultMerge", ZeroConfig, ZeroConfig)

\* ------------------------------------------------------------- validators
\* the configuration type of the validator tests
ValidatedConfig(host, port, dbhost) ==
    Struct([Server |-> ServerConfig(host, port),
            Database |-> Struct([Host |-> VString(dbhost), Port |-> VInt(5432)], {})], {})

ValidatedConfigs ==
    { ValidatedConfig("localhost", port, dbhost) : port \in {80, 8080},
                                                   dbhost \in {"", "dbhost"} }

\* the ValidatorFunc values of the tests: the server port check, the
\* database host check and a validator that always passes
ValidatorFuncs == {"validator1", "validator2", "pass"}

\* ValidatorFunc.Validate(cfg): calls the function
ValidatorFunc(fn, c) ==
    CASE fn = "validator1" ->
            IF c.f.Server.f.Port.v < 1024 THEN NewError("server port too low") ELSE NilErr
      [] fn = "validator2" ->
            IF c.f.Database.f.Host.v = "" THEN NewError("database host empty") ELSE NilErr
      [] OTHER -> NilErr

\* &ValidationError{ValidatorIndex: i, Cause: err}; Unwrap returns Cause
ValidationError(idx, err) ==
    << [type |-> "ValidationError", name |-> ToString(idx)] >> \o err

\* NewCompositeValidator(validators...) and the locals of Validate(cfg)
Validating(pc, validators, c) ==
    [pc |-> pc, validators |-> validators, cfg |-> c, i |-> 0, ran |-> << >>,
     out |-> NilErr]

NoValidate == Validating("none", << >>, ValidatedConfig("", 0, ""))

ValidatorLists == UNION { [1..len -> ValidatorFuncs] : len \in 0..MaxValidators }

\* if err := validator.Validate(cfg); err != nil { return ... }
ValidationFailed_Never(err) == FALSE
ValidationFailed(err) == err # NilErr

\* --------------------------------------------------------------- caller
\* what the caller of Chain did: the slice value it passed, the number of
\* writes to elements of that slice since Chain returned, and the invocation
\* count and status at the last write
Caller(passed) == [passed |-> passed, writes |-> 0, ninv |-> 0, status |-> "none"]

NoCaller == Caller(<< >>)

\* what the caller can store in element k of its slice: nil, an element the
\* slice had when it was passed, or a new interceptor
Storable(k) ==
    {NoInterceptor, Interceptor(100 + k, "short")}
        \cup { caller.passed[j] : j \in 1..Len(caller.passed) }

\* the components that are not running
InitExt ==
    /\ caller = NoCaller
    /\ regs = NoRegisterAll
    /\ cfg = NoConfig
    /\ mrg = NoMerge
    /\ cv = NoValidate

Init ==
    /\ terminal \in HandlerKinds
    /\ interceptors \in InterceptorLists
    /\ cpc = "entry"
    /\ i = 0
    /\ handler = H
    /\ closures = << >>
    /\ pipeline = NilFunc
    /\ ctx = NewUniversalContext(NilContext, "", "", TestMeta("", ""))
    /\ stack = << >>
    /\ calls = << >>
    /\ rets = << >>
    /\ ret = NoRet
    /\ status = "idle"
    /\ ninv = 0
    /\ nret = 0
    /\ nbuild = 1
    /\ ctx0 = ctx
    /\ seen = << >>
    /\ parked = IdleInvocation
    /\ prev = "none"
    /\ exec = NoExec
    /\ werr = NoWrap
    /\ reg = NoRegister
    /\ InitExt

\* ------------------------------------------------------------------ Chain
\* len(interceptors) == 0
IsEmpty(ics) == Len(ics) = 0

\* return handler   (the early return for an empty list)
EmptyResult_Nil(h) == NilFunc
EmptyResult(h) == h

\* i := len(interceptors) - 1
LoopInit_SkipLast(ics) == Len(ics) - 2
LoopInit_Stateful(ics) == Len(ics) - nbuild
LoopInit(ics) == Len(ics) - 1

\* currentInterceptor := interceptors[i]   (Go indexes from 0)
LoopInterceptor_Reversed(ics, k) == ics[Len(ics) - k]
LoopInterceptor(ics, k) == ics[k + 1]

\* the closure  func(ctx) { return currentInterceptor.Intercept(ctx, nextFunc) }
NewClosure_ToHandler(ic, nf) == [currentInterceptor |-> ic, nextFunc |-> H]
NewClosure(ic, nf) == [currentInterceptor |-> ic, nextFunc |-> nf]

\* the closure hands the Request Context it was called with to Intercept
LayerContext_Fresh(c) == NewUniversalContext(NilContext, c.Protocol, c.Method, c.Meta)
LayerContext(c) == c

\* the closure returns what Intercept returned
LayerReturn_DropErr(r) == Pair(r.result, NilErr)
LayerReturn_SharedSlot(r) ==
    IF parked.rets # << >> THEN parked.rets[Len(parked.rets)].r ELSE r
LayerReturn(r) == r

ChainEmpty ==
    /\ cpc = "entry"
    /\ IsEmpty(interceptors)
    /\ pipeline' = EmptyResult(handler)
    /\ cpc' = "returned"
    /\ UNCHANGED <<terminal, interceptors, i, handler, closures, nbuild>>
    /\ UNCHANGED callVars
    /\ UNCHANGED auxVars

ChainLoopInit ==
    /\ cpc = "entry"
    /\ ~IsEmpty(interceptors)
    /\ i' = LoopInit(interceptors)
    /\ cpc' = "loop"
    /\ UNCHANGED <<terminal, interceptors, handler, closures, pipeline, nbuild>>
    /\ UNCHANGED callVars
    /\ UNCHANGED auxVars

ChainLoop ==
    /\ cpc = "loop"
    /\ i >= 0
    /\ closures' = Append(closures, NewClosure(LoopInterceptor(interceptors, i), handler))
    /\ handler' = Len(closures) + 1
    /\ i' = i - 1
    /\ UNCHANGED <<terminal, interceptors, cpc, pipeline, nbuild>>
    /\ UNCHANGED callVars
    /\ UNCHANGED auxVars

ChainReturn ==
    /\ cpc = "loop"
    /\ i < 0
    /\ pipeline' = handler
    /\ cpc' = "returned"
    /\ UNCHANGED <<terminal, interceptors, i, handler, closures, nbuild>>
    /\ UNCHANGED callVars
    /\ UNCHANGED auxVars

\* Chain is called again with the same handler and interceptors
Rebuild ==
    /\ cpc = "returned"
    /\ status \in {"idle", "returned"}
    /\ nbuild < MaxBuilds
    /\ nbuild' = nbuild + 1
    /\ cpc' = "entry"
    /\ handler' = H
    /\ i' = 0
    /\ pipeline' = NilFunc
    /\ UNCHANGED <<terminal, interceptors, closures>>
    /\ UNCHANGED callVars
    /\ UNCHANGED auxVars

\* ------------------------------------------------------------- invocation
Enter(k) == [ev |-> "enter", id |-> k]
Exit(k) == [ev |-> "exit", id |-> k]
HandlerEv == [ev |-> "handler", id |-> -1]

HandlerFrame ==
    [f |-> "handler", ic |-> NoInterceptor, next |-> NilFunc, pc |-> "pre", r |-> NoRet,
     m |-> 0]
\* the frame of a layer if its closure read the slice when it runs
LayerFrame_FromSlice(cl) ==
    LET k == cl.currentInterceptor.id + 1
    IN [f |-> "interceptor",
        ic |-> IF k <= Len(interceptors) /\ interceptors[k] # NoInterceptor
               THEN interceptors[k] ELSE cl.currentInterceptor,
        next |-> cl.nextFunc, pc |-> "pre", r |-> NoRet, m |-> 0]
LayerFrame(cl) ==
    [f |-> "interceptor", ic |-> cl.currentInterceptor, next |-> cl.nextFunc,
     pc |-> "pre", r |-> NoRet, m |-> 0]

\* calling the function value fn pushes the frame of its body
CallFunc_Stateful(fn, stk) ==
    IF fn = NilFunc THEN stk
    ELSE IF fn = H \/ (fn = pipeline /\ ninv > 0) THEN Append(stk, HandlerFrame)
    ELSE Append(stk, LayerFrame(closures[fn]))
CallFunc(fn, stk) ==
    IF fn = NilFunc THEN stk
    ELSE IF fn = H THEN Append(stk, HandlerFrame)
    ELSE Append(stk, LayerFrame(closures[fn]))

\* the Request Context the body of fn receives when fn is called with c
CallContext(fn, c) == IF fn = NilFunc \/ fn = H THEN c ELSE LayerContext(c)

Top == stack[Len(stack)]
Rest == SubSeq(stack, 1, Len(stack) - 1)

\* the top frame returns r to its caller
ReturnTo(rest, r) ==
    IF rest = << >>
    THEN /\ stack' = << >>
         /\ ret' = r
         /\ status' = "returned"
         /\ nret' = nret + 1
    ELSE /\ stack' = [rest EXCEPT ![Len(rest)].pc = "post", ![Len(rest)].r = r]
         /\ UNCHANGED <<ret, status, nret>>

\* how a finished invocation ended
Outcome(cl, r) ==
    IF \A j \in 1..Len(cl) : cl[j] # HandlerEv THEN "short"
    ELSE IF r.err # NilErr THEN "error"
    ELSE "ok"

\* result, err := pipeline(ctx)
Invoke(c) ==
    /\ cpc = "returned"
    /\ status \in {"idle", "returned"}
    /\ ninv < MaxInvocations
    /\ ninv' = ninv + 1
    /\ prev' = IF status = "returned" THEN Outcome(calls, ret) ELSE prev
    /\ ctx0' = c
    /\ ctx' = CallContext(pipeline, c)
    /\ seen' = << >>
    /\ calls' = << >>
    /\ rets' = << >>
    /\ ret' = NoRet
    /\ nret' = 0
    /\ stack' = CallFunc(pipeline, << >>)
    /\ status' = IF pipeline = NilFunc THEN "panic" ELSE "running"
    /\ UNCHANGED chainVars
    /\ UNCHANGED auxVars

\* an interceptor returns without calling next
InterceptShort ==
    /\ status = "running"
    /\ Top.f = "interceptor"
    /\ Top.pc = "pre"
    /\ ~CallsNext(Top.ic, ctx)
    /\ calls' = Append(calls, Enter(Top.ic.id))
    /\ seen' = Append(seen, [id |-> Top.ic.id, ctx |-> ctx])
    /\ LET r == ShortCircuitReturn(Top.ic, ctx)
       IN /\ rets' = Append(rets, [id |-> Top.ic.id, r |-> r])
          /\ ReturnTo(Rest, LayerReturn(r))
    /\ UNCHANGED <<ctx, ninv, ctx0, prev>>
    /\ UNCHANGED chainVars
    /\ UNCHANGED auxVars

\* an interceptor calls next(ctx)
InterceptCallNext ==
    /\ status = "running"
    /\ Top.f = "interceptor"
    /\ Top.pc = "pre"
    /\ CallsNext(Top.ic, ctx)
    /\ calls' = Append(calls, Enter(Top.ic.id))
    /\ seen' = Append(seen, [id |-> Top.ic.id, ctx |-> ctx])
    /\ ctx' = CallContext(Top.next, PreContext(Top.ic, ctx))
    /\ stack' = CallFunc(Top.next, [stack EXCEPT ![Len(stack)].pc = "wait",
                                                 ![Len(stack)].m = 1])
    /\ UNCHANGED <<rets, ret, status, ninv, nret, ctx0, prev>>
    /\ UNCHANGED chainVars
    /\ UNCHANGED auxVars

\* next(ctx) has returned to the interceptor, which runs its post-next logic
InterceptPost ==
    /\ status = "running"
    /\ Top.f = "interceptor"
    /\ Top.pc = "post"
    /\ ~CallsAgain(Top.ic, Top.m, Top.r)
    /\ calls' = Append(calls, Exit(Top.ic.id))
    /\ LET r == PostReturn(Top.ic, Top.r)
       IN /\ rets' = Append(rets, [id |-> Top.ic.id, r |-> r])
          /\ ReturnTo(Rest, LayerReturn(r))
    /\ UNCHANGED <<ctx, ninv, ctx0, seen, prev>>
    /\ UNCHANGED chainVars
    /\ UNCHANGED auxVars

\* next(ctx) has returned to the interceptor, which calls next(ctx) again
Again(k) == [ev |-> "again", id |-> k]

InterceptCallAgain ==
    /\ status = "running"
    /\ Top.f = "interceptor"
    /\ Top.pc = "post"
    /\ CallsAgain(Top.ic, Top.m, Top.r)
    /\ calls' = Append(calls, Again(Top.ic.id))
    /\ ctx' = CallContext(Top.next, ctx)
    /\ stack' = CallFunc(Top.next, [stack EXCEPT ![Len(stack)].pc = "wait",
                                                 ![Len(stack)].m = @ + 1])
    /\ UNCHANGED <<rets, ret, status, ninv, nret, ctx0, seen, prev>>
    /\ UNCHANGED chainVars
    /\ UNCHANGED auxVars

\* the terminal handler runs
HandlerRun ==
    /\ status = "running"
    /\ Top.f = "handler"
    /\ calls' = Append(calls, HandlerEv)
    /\ seen' = Append(seen, [id |-> -1, ctx |-> ctx])
    /\ ctx' = HandlerContext(terminal, ctx)
    /\ LET r == HandlerReturn(terminal, ctx)
       IN /\ rets' = Append(rets, [id |-> -1, r |-> r])
          /\ ReturnTo(Rest, r)
    /\ UNCHANGED <<ninv, ctx0, prev>>
    /\ UNCHANGED chainVars
    /\ UNCHANGED auxVars

Next ==
    \/ ChainEmpty
    \/ ChainLoopInit
    \/ ChainLoop
    \/ ChainReturn
    \/ \E c \in Contexts : Invoke(c)
    \/ InterceptShort
    \/ InterceptCallNext
    \/ InterceptPost
    \/ HandlerRun

Spec == Init /\ [][Next]_vars

\* The scheduler switches to the other goroutine that invokes the same
\* pipeline value with its own Request Context.
Switch ==
    /\ cpc = "returned"
    /\ parked' = Invocation(ctx, stack, calls, rets, ret, status, nret, ctx0, seen)
    /\ ctx' = parked.ctx
    /\ stack' = parked.stack
    /\ calls' = parked.calls
    /\ rets' = parked.rets
    /\ ret' = parked.ret
    /\ status' = parked.status
    /\ nret' = parked.nret
    /\ ctx0' = parked.ctx0
    /\ seen' = parked.seen
    /\ UNCHANGED <<ninv, prev, exec, werr, reg, extVars>>
    /\ UNCHANGED chainVars

\* the Request Contexts of the concurrent callers
ConcContexts ==
    { NewUniversalContext(NilContext, "http", "GET /admin", TestMeta("user123", "admin")),
      NewUniversalContext(CancelCtx, "http", "GET /", TestMeta("", "")),
      NewUniversalContext(WithValue(Background, "interceptor-key"), "grpc", "GetUser",
                          TestMeta("user123", "")) }

InitConc == Init /\ Len(interceptors) <= MaxConcN

\* Chain is called several times with the same arguments
NextRebuild ==
    \/ ChainEmpty
    \/ ChainLoopInit
    \/ ChainLoop
    \/ ChainReturn
    \/ Rebuild
    \/ \E c \in Contexts : Invoke(c)
    \/ InterceptShort
    \/ InterceptCallNext
    \/ InterceptPost
    \/ HandlerRun

SpecRebuild == InitConc /\ [][NextRebuild]_vars

NextConc ==
    \/ ChainEmpty
    \/ ChainLoopInit
    \/ ChainLoop
    \/ ChainReturn
    \/ \E c \in ConcContexts : Invoke(c)
    \/ InterceptShort
    \/ InterceptCallNext
    \/ InterceptPost
    \/ HandlerRun
    \/ Switch

\* two goroutines invoke one pipeline value, interleaved at every step
SpecConc == InitConc /\ [][NextConc]_vars


\* -------------------------------------------------------- ExecutePipeline
InitBridge ==
    /\ exec \in { Exec("start", b, r, nc, key, bh) :
                    b \in Bridges, r \in Resolvers, nc \in NativeContexts,
                    key \in HandlerKeys, bh \in HandlerKinds }
    /\ terminal = "none"
    /\ interceptors = << >>
    /\ cpc = "idle"
    /\ i = 0
    /\ handler = H
    /\ closures = << >>
    /\ pipeline = NilFunc
    /\ ctx = NewUniversalContext(NilContext, "", "", MockMeta("", ""))
    /\ stack = << >>
    /\ calls = << >>
    /\ rets = << >>
    /\ ret = NoRet
    /\ status = "idle"
    /\ ninv = 0
    /\ nret = 0
    /\ nbuild = 1
    /\ ctx0 = ctx
    /\ seen = << >>
    /\ parked = IdleInvocation
    /\ prev = "none"
    /\ werr = NoWrap
    /\ reg = NoRegister
    /\ InitExt

\* uCtx := bridge.CreateUniversalContext(nativeCtx)
ExecCreate ==
    /\ exec.pc = "start"
    /\ exec' = [exec EXCEPT
                  !.pc = "created",
                  !.uCtx = CreateUniversalContext(exec.bridge, exec.nativeCtx),
                  !.log = Append(@, [op |-> "CreateUniversalContext",
                                     arg |-> exec.nativeCtx])]
    /\ UNCHANGED <<chainVars, callVars, parked, werr, reg, extVars>>

\* interceptors := resolver.Resolve(uCtx, handlerKey)
ExecResolve ==
    /\ exec.pc = "created"
    /\ exec' = [exec EXCEPT
                  !.pc = "resolved",
                  !.resolved = Resolve(exec.resolver, exec.uCtx, exec.handlerKey),
                  !.log = Append(@, [op |-> "Resolve",
                                     arg |-> <<exec.uCtx, exec.handlerKey>>])]
    /\ UNCHANGED <<chainVars, callVars, parked, werr, reg, extVars>>

\* the arguments of  Chain(businessHandler, interceptors...)
ChainArgs_None(ics) == << >>
ChainArgs(ics) == ics

\* pipeline := Chain(businessHandler, interceptors...)   (the call)
ExecChain ==
    /\ exec.pc = "resolved"
    /\ terminal' = exec.businessHandler
    /\ interceptors' = ChainArgs(exec.resolved)
    /\ cpc' = "entry"
    /\ i' = 0
    /\ handler' = H
    /\ closures' = << >>
    /\ pipeline' = NilFunc
    /\ exec' = [exec EXCEPT !.pc = "chain", !.log = Append(@, [op |-> "Chain", arg |-> << >>])]
    /\ UNCHANGED <<nbuild, callVars, parked, werr, reg, extVars>>

\* result, err := pipeline(uCtx)
ExecInvoke ==
    /\ exec.pc = "chain"
    /\ status = "idle"
    /\ Invoke(exec.uCtx)

\* if err != nil { bridge.OnError(...) } else { bridge.OnSuccess(...) }
HookOf_AlwaysSuccess(r) == "OnSuccess"
HookOf(r) == IF r.err # NilErr THEN "OnError" ELSE "OnSuccess"

ExecHook ==
    /\ exec.pc = "chain"
    /\ status = "returned"
    /\ LET hk == HookOf(ret)
           arg == IF hk = "OnError" THEN ret.err ELSE ret.result
       IN exec' = [exec EXCEPT
                     !.pc = "hooked",
                     !.hooks = Append(@, [hook |-> hk, nativeCtx |-> exec.nativeCtx,
                                          arg |-> arg]),
                     !.captured = @ \o (IF hk = "OnError"
                                        THEN OnError(exec.bridge, exec.nativeCtx, arg)
                                        ELSE OnSuccess(exec.bridge, exec.nativeCtx, arg))]
    /\ UNCHANGED <<chainVars, callVars, parked, werr, reg, extVars>>

\* return result, err
ExecReturn ==
    /\ exec.pc = "hooked"
    /\ exec' = [exec EXCEPT !.pc = "returned", !.out = Pair(ret.result, ret.err)]
    /\ UNCHANGED <<chainVars, callVars, parked, werr, reg, extVars>>

NextBridge ==
    \/ ExecCreate
    \/ ExecResolve
    \/ ExecChain
    \/ ChainEmpty
    \/ ChainLoopInit
    \/ ChainLoop
    \/ ChainReturn
    \/ ExecInvoke
    \/ InterceptShort
    \/ InterceptCallNext
    \/ InterceptPost
    \/ HandlerRun
    \/ ExecHook
    \/ ExecReturn

SpecBridge == InitBridge /\ [][NextBridge]_vars

\* ------------------------------------------------------- InterceptorError
InitErr ==
    /\ werr \in { Wrapping("wrap", b) : b \in BaseErrors }
    /\ exec = NoExec
    /\ terminal = "ok"
    /\ interceptors = << >>
    /\ cpc = "idle"
    /\ i = 0
    /\ handler = H
    /\ closures = << >>
    /\ pipeline = NilFunc
    /\ ctx = NewUniversalContext(NilContext, "", "", TestMeta("", ""))
    /\ stack = << >>
    /\ calls = << >>
    /\ rets = << >>
    /\ ret = NoRet
    /\ status = "idle"
    /\ ninv = 0
    /\ nret = 0
    /\ nbuild = 1
    /\ ctx0 = ctx
    /\ seen = << >>
    /\ parked = IdleInvocation
    /\ prev = "none"
    /\ reg = NoRegister
    /\ InitExt

\* err = NewInterceptorError(name, err)
ErrWrap(name) ==
    /\ werr.pc = "wrap"
    /\ Len(werr.names) < MaxDepth
    /\ LET out == NewInterceptorError(name, werr.wrapped)
       IN werr' = [werr EXCEPT
                     !.names = Append(@, name),
                     !.wrapped = out,
                     !.cur = out,
                     !.last = [name |-> name, err |-> werr.wrapped, out |-> out,
                               n |-> @.n + 1]]
    /\ UNCHANGED <<chainVars, callVars, parked, exec, reg, extVars>>

\* err = err.(*InterceptorError).Unwrap()
ErrUnwrap ==
    /\ werr.pc \in {"wrap", "unwrap"}
    /\ IsInterceptorError(werr.cur)
    /\ werr' = [werr EXCEPT !.pc = "unwrap", !.cur = Unwrap(@), !.steps = @ + 1]
    /\ UNCHANGED <<chainVars, callVars, parked, exec, reg, extVars>>

NextErr ==
    \/ \E name \in InterceptorNames : ErrWrap(name)
    \/ ErrUnwrap

SpecErr == InitErr /\ [][NextErr]_vars

\* --------------------------------------------------------- RegisterRouter
InitRouter ==
    /\ reg \in { Registering("entry", c, given) :
                   c \in Controllers, given \in {NilContext, Background, CancelCtx} }
    /\ werr = NoWrap
    /\ exec = NoExec
    /\ InitExt
    /\ terminal = "ok"
    /\ interceptors = << >>
    /\ cpc = "idle"
    /\ i = 0
    /\ handler = H
    /\ closures = << >>
    /\ pipeline = NilFunc
    /\ ctx = NewUniversalContext(NilContext, "", "", TestMeta("", ""))
    /\ stack = << >>
    /\ calls = << >>
    /\ rets = << >>
    /\ ret = NoRet
    /\ status = "idle"
    /\ ninv = 0
    /\ nret = 0
    /\ nbuild = 1
    /\ ctx0 = ctx
    /\ seen = << >>
    /\ parked = IdleInvocation
    /\ prev = "none"

regFrame == <<chainVars, callVars, parked, exec, werr, extVars>>

\* if controller == nil { return nil }
RegNil ==
    /\ reg.pc = "entry"
    /\ reg.controller.isNil
    /\ reg' = [reg EXCEPT !.pc = "returned", !.out = NilErr]
    /\ UNCHANGED regFrame

\* if ctx == nil { ctx = context.Background() };  i := 0
RegStart ==
    /\ reg.pc = "entry"
    /\ ~reg.controller.isNil
    /\ reg' = [reg EXCEPT !.pc = "loop", !.i = 0,
                          !.ctx = IF reg.given.isNil THEN Background ELSE reg.given]
    /\ UNCHANGED regFrame

\* if !isValidDynamicMethod(methodType) { continue }
RegSkip ==
    /\ reg.pc = "loop"
    /\ reg.i < NumMethod(reg.controller)
    /\ ~isValidDynamicMethod(MethodTable(reg.controller)[reg.i + 1])
    /\ reg' = [reg EXCEPT !.i = @ + 1]
    /\ UNCHANGED regFrame

\* method.Call(ctx) under the deferred recover
RegCall ==
    /\ reg.pc = "loop"
    /\ reg.i < NumMethod(reg.controller)
    /\ LET m == MethodTable(reg.controller)[reg.i + 1]
           does == Does(reg.controller, m.name)
       IN /\ isValidDynamicMethod(m)
          /\ reg' = [reg EXCEPT
                       !.pc = "called",
                       !.called = Append(@, [name |-> m.name, ctx |-> reg.ctx]),
                       !.panicErr = IF does = "return" THEN NilErr
                                    ELSE PanicErr(m.name, Recover(does))]
    /\ UNCHANGED regFrame

\* if panicErr != nil { return panicErr }  else the next i
RegAfterCall ==
    /\ reg.pc = "called"
    /\ reg' = IF FailFast(reg.panicErr)
              THEN [reg EXCEPT !.pc = "returned", !.out = reg.panicErr]
              ELSE [reg EXCEPT !.pc = "loop", !.i = @ + 1, !.panicErr = NilErr]
    /\ UNCHANGED regFrame

\* return nil   (after the loop)
RegReturn ==
    /\ reg.pc = "loop"
    /\ reg.i >= NumMethod(reg.controller)
    /\ reg' = [reg EXCEPT !.pc = "returned", !.out = NilErr]
    /\ UNCHANGED regFrame

NextRouter ==
    \/ RegNil
    \/ RegStart
    \/ RegSkip
    \/ RegCall
    \/ RegAfterCall
    \/ RegReturn

SpecRouter == InitRouter /\ [][NextRouter]_vars

\* -------------------------------------------------------- RegisterRouters
InitRouters ==
    /\ regs \in { RegisteringAll("entry", cs, given) :
                    cs \in ControllerSlices, given \in {NilContext, CancelCtx} }
    /\ reg = NoRegister
    /\ cfg = NoConfig
    /\ mrg = NoMerge
    /\ cv = NoValidate
    /\ caller = NoCaller
    /\ werr = NoWrap
    /\ exec = NoExec
    /\ terminal = "ok"
    /\ interceptors = << >>
    /\ cpc = "idle"
    /\ i = 0
    /\ handler = H
    /\ closures = << >>
    /\ pipeline = NilFunc
    /\ ctx = NewUniversalContext(NilContext, "", "", TestMeta("", ""))
    /\ stack = << >>
    /\ calls = << >>
    /\ rets = << >>
    /\ ret = NoRet
    /\ status = "idle"
    /\ ninv = 0
    /\ nret = 0
    /\ nbuild = 1
    /\ ctx0 = ctx
    /\ seen = << >>
    /\ parked = IdleInvocation
    /\ prev = "none"

regsFrame == <<chainVars, callVars, parked, exec, werr, cfg, mrg, cv, caller>>

\* if ctx == nil { ctx = context.Background() };  the range loop starts
RegsStart ==
    /\ regs.pc = "entry"
    /\ regs' = [regs EXCEPT !.pc = "loop", !.i = 0,
                            !.ctx = IF regs.given.isNil THEN Background ELSE regs.given]
    /\ UNCHANGED reg
    /\ UNCHANGED regsFrame

\* RegisterRouter(controller, ctx) is called for controllers[i]
RegsCall ==
    /\ regs.pc = "loop"
    /\ regs.i < Len(regs.controllers)
    /\ reg' = Registering("entry", regs.controllers[regs.i + 1], regs.ctx)
    /\ regs' = [regs EXCEPT !.pc = "calling"]
    /\ UNCHANGED regsFrame

\* RegisterRouter returned: return the wrapped error, or go on with i + 1
RegsAfterCall ==
    /\ regs.pc = "calling"
    /\ reg.pc = "returned"
    /\ LET done == [j \in 1..Len(reg.called) |->
                       [controller |-> regs.i, name |-> reg.called[j].name,
                        ctx |-> reg.called[j].ctx]]
       IN regs' = IF StopAtError(reg.out)
                  THEN [regs EXCEPT !.pc = "returned", !.called = @ \o done,
                                    !.out = ControllerErr(regs.i, reg.out)]
                  ELSE [regs EXCEPT !.pc = "loop", !.called = @ \o done, !.i = @ + 1]
    /\ reg' = NoRegister
    /\ UNCHANGED regsFrame

\* return nil   (after the loop)
RegsReturn ==
    /\ regs.pc = "loop"
    /\ regs.i >= Len(regs.controllers)
    /\ regs' = [regs EXCEPT !.pc = "returned", !.out = NilErr]
    /\ UNCHANGED reg
    /\ UNCHANGED regsFrame

NextRouters ==
    \/ RegsStart
    \/ RegsCall
    \/ RegNil
    \/ RegStart
    \/ RegSkip
    \/ RegCall
    \/ RegAfterCall
    \/ RegReturn
    \/ RegsAfterCall
    \/ RegsReturn

SpecRouters == InitRouters /\ [][NextRouters]_vars

\* ------------------------------------------------------------ Config.Load
InitConfig ==
    /\ cfg \in { New("idle", ls) : ls \in LoaderLists }
    /\ regs = NoRegisterAll
    /\ mrg = NoMerge
    /\ reg = NoRegister
    /\ cv = NoValidate
    /\ caller = NoCaller
    /\ werr = NoWrap
    /\ exec = NoExec
    /\ terminal = "ok"
    /\ interceptors = << >>
    /\ cpc = "idle"
    /\ i = 0
    /\ handler = H
    /\ closures = << >>
    /\ pipeline = NilFunc
    /\ ctx = NewUniversalContext(NilContext, "", "", TestMeta("", ""))
    /\ stack = << >>
    /\ calls = << >>
    /\ rets = << >>
    /\ ret = NoRet
    /\ status = "idle"
    /\ ninv = 0
    /\ nret = 0
    /\ nbuild = 1
    /\ ctx0 = ctx
    /\ seen = << >>
    /\ parked = IdleInvocation
    /\ prev = "none"

cfgFrame == <<chainVars, callVars, parked, exec, werr, reg, regs, mrg, cv, caller>>

\* c.mergeFunc = mergeFn
WithMerge(mergeFn) ==
    /\ cfg.pc = "idle"
    /\ cfg.mergeFunc # mergeFn
    /\ cfg' = [cfg EXCEPT !.mergeFunc = mergeFn]
    /\ UNCHANGED cfgFrame

\* c.validator = validator
WithValidator(validator) ==
    /\ cfg.pc = "idle"
    /\ cfg.validator # validator
    /\ cfg' = [cfg EXCEPT !.validator = validator]
    /\ UNCHANGED cfgFrame

\* Load is called:  accumulated := new(T)
LoadStart ==
    /\ cfg.pc = "idle"
    /\ cfg.nload < MaxLoads
    /\ cfg' = [cfg EXCEPT !.pc = "loop", !.accumulated = ZeroConfig, !.temp = ZeroConfig,
                          !.i = 0, !.log = << >>, !.out = NilErr, !.returned = "running",
                          !.nload = @ + 1, !.before = cfg.data, !.used = cfg.mergeFunc,
                          !.usedValidator = cfg.validator]
    /\ UNCHANGED cfgFrame

\* temp := new(T);  if err := loader.Load(temp); err != nil { return ... }
LoadLoader ==
    /\ cfg.pc = "loop"
    /\ cfg.i < Len(cfg.loaders)
    /\ LET r == LoaderLoad(cfg.loaders[cfg.i + 1])
           log == Append(cfg.log, [op |-> "Load", i |-> cfg.i, arg |-> ZeroConfig])
       IN cfg' = IF r.err # NilErr
                 THEN [cfg EXCEPT !.pc = "idle", !.returned = "error", !.log = log,
                          !.out = Wrapf("loader[" \o ToString(cfg.i) \o "] failed", r.err)]
                 ELSE [cfg EXCEPT !.pc = "merge", !.temp = r.temp, !.log = log]
    /\ UNCHANGED cfgFrame

\* if err := c.mergeFunc(accumulated, temp); err != nil { return ... }
LoadMerge_IntoData ==
    /\ cfg.pc = "merge"
    /\ LET r == MergeCall(cfg.mergeFunc, cfg.accumulated, cfg.temp)
           log == Append(cfg.log, [op |-> "merge", i |-> cfg.i, arg |-> cfg.temp])
       IN cfg' = IF r.err # NilErr
                 THEN [cfg EXCEPT !.pc = "idle", !.returned = "error", !.log = log,
                          !.out = Wrapf("merge loader[" \o ToString(cfg.i) \o "] failed",
                                        r.err)]
                 ELSE [cfg EXCEPT !.pc = "loop", !.accumulated = r.dst, !.i = @ + 1,
                                  !.log = log, !.data = r.dst]
    /\ UNCHANGED cfgFrame
LoadMerge ==
    /\ cfg.pc = "merge"
    /\ LET r == MergeCall(cfg.mergeFunc, cfg.accumulated, cfg.temp)
           log == Append(cfg.log, [op |-> "merge", i |-> cfg.i, arg |-> cfg.temp])
       IN cfg' = IF r.err # NilErr
                 THEN [cfg EXCEPT !.pc = "idle", !.returned = "error", !.log = log,
                          !.out = Wrapf("merge loader[" \o ToString(cfg.i) \o "] failed",
                                        r.err)]
                 ELSE [cfg EXCEPT !.pc = "loop", !.accumulated = r.dst, !.i = @ + 1,
                                  !.log = log]
    /\ UNCHANGED cfgFrame

\* if c.validator != nil { if err := c.validator.Validate(accumulated) ... }
HasValidator_Never(v) == FALSE
HasValidator(v) == v # "nil"

LoadValidate ==
    /\ cfg.pc = "loop"
    /\ cfg.i >= Len(cfg.loaders)
    /\ cfg' = IF HasValidator(cfg.validator)
              THEN LET err == Validate(cfg.validator, cfg.accumulated)
                       log == Append(cfg.log, [op |-> "Validate", i |-> cfg.i,
                                               arg |-> cfg.accumulated])
                   IN IF err # NilErr
                      THEN [cfg EXCEPT !.pc = "idle", !.returned = "error", !.log = log,
                                       !.out = Wrapf("config validation failed", err)]
                      ELSE [cfg EXCEPT !.pc = "store", !.log = log]
              ELSE [cfg EXCEPT !.pc = "store"]
    /\ UNCHANGED cfgFrame

\* c.data = *accumulated;  return nil
LoadStore ==
    /\ cfg.pc = "store"
    /\ cfg' = [cfg EXCEPT !.pc = "idle", !.returned = "ok", !.data = cfg.accumulated,
                          !.out = NilErr]
    /\ UNCHANGED cfgFrame

\* Get() and GetPtr(): the stored data
Get == cfg.data

NextConfig ==
    \/ \E mergeFn \in MergeFuncs : WithMerge(mergeFn)
    \/ \E validator \in Validators : WithValidator(validator)
    \/ LoadStart
    \/ LoadLoader
    \/ LoadMerge
    \/ LoadValidate
    \/ LoadStore

SpecConfig == InitConfig /\ [][NextConfig]_vars

\* ------------------------------------------------------------ merge calls
InitMerge ==
    /\ mrg \in { Merging("entry", fn, dst, src) :
                    fn \in {"DefaultMerge", "ShallowMerge"},
                    dst \in ConfigValues("n"), src \in ConfigValues("s") }
    /\ cfg = NoConfig
    /\ regs = NoRegisterAll
    /\ reg = NoRegister
    /\ cv = NoValidate
    /\ caller = NoCaller
    /\ werr = NoWrap
    /\ exec = NoExec
    /\ terminal = "ok"
    /\ interceptors = << >>
    /\ cpc = "idle"
    /\ i = 0
    /\ handler = H
    /\ closures = << >>
    /\ pipeline = NilFunc
    /\ ctx = NewUniversalContext(NilContext, "", "", TestMeta("", ""))
    /\ stack = << >>
    /\ calls = << >>
    /\ rets = << >>
    /\ ret = NoRet
    /\ status = "idle"
    /\ ninv = 0
    /\ nret = 0
    /\ nbuild = 1
    /\ ctx0 = ctx
    /\ seen = << >>
    /\ parked = IdleInvocation
    /\ prev = "none"

mrgFrame == <<chainVars, callVars, parked, exec, werr, reg, regs, cfg, cv, caller>>

\* DefaultMerge(dst, src) runs and returns nil
CallDefaultMerge ==
    /\ mrg.pc = "entry"
    /\ mrg.fn = "DefaultMerge"
    /\ mrg' = [mrg EXCEPT !.pc = "returned", !.dst = DefaultMerge(mrg.dst, mrg.src)]
    /\ UNCHANGED mrgFrame

\* ShallowMerge(dst, src) runs and returns nil
CallShallowMerge ==
    /\ mrg.pc = "entry"
    /\ mrg.fn = "ShallowMerge"
    /\ mrg' = [mrg EXCEPT !.pc = "returned", !.dst = ShallowMerge(mrg.dst, mrg.src)]
    /\ UNCHANGED mrgFrame

NextMerge ==
    \/ CallDefaultMerge
    \/ CallShallowMerge

SpecMerge == InitMerge /\ [][NextMerge]_vars

\* ------------------------------------------- CompositeValidator.Validate
InitValidator ==
    /\ cv \in { Validating("entry", vs, c) : vs \in ValidatorLists, c \in ValidatedConfigs }
    /\ mrg = NoMerge
    /\ cfg = NoConfig
    /\ regs = NoRegisterAll
    /\ reg = NoRegister
    /\ caller = NoCaller
    /\ werr = NoWrap
    /\ exec = NoExec
    /\ terminal = "ok"
    /\ interceptors = << >>
    /\ cpc = "idle"
    /\ i = 0
    /\ handler = H
    /\ closures = << >>
    /\ pipeline = NilFunc
    /\ ctx = NewUniversalContext(NilContext, "", "", TestMeta("", ""))
    /\ stack = << >>
    /\ calls = << >>
    /\ rets = << >>
    /\ ret = NoRet
    /\ status = "idle"
    /\ ninv = 0
    /\ nret = 0
    /\ nbuild = 1
    /\ ctx0 = ctx
    /\ seen = << >>
    /\ parked = IdleInvocation
    /\ prev = "none"

cvFrame == <<chainVars, callVars, parked, exec, werr, reg, regs, cfg, mrg, caller>>

\* Validate(cfg) is called: the range loop starts
ValidateStart ==
    /\ cv.pc = "entry"
    /\ cv' = [cv EXCEPT !.pc = "loop", !.i = 0]
    /\ UNCHANGED cvFrame

\* one round of the loop: validators[i].Validate(cfg) and the test of err
ValidateOne ==
    /\ cv.pc = "loop"
    /\ cv.i < Len(cv.validators)
    /\ LET err == ValidatorFunc(cv.validators[cv.i + 1], cv.cfg)
           ran == Append(cv.ran, cv.i)
       IN cv' = IF ValidationFailed(err)
                THEN [cv EXCEPT !.pc = "returned", !.ran = ran,
                                !.out = IF Len(cv.validators) > 1
                                        THEN ValidationError(cv.i, err)
                                        ELSE err]
                ELSE [cv EXCEPT !.i = @ + 1, !.ran = ran]
    /\ UNCHANGED cvFrame

\* return nil   (after the loop)
ValidateReturn ==
    /\ cv.pc = "loop"
    /\ cv.i >= Len(cv.validators)
    /\ cv' = [cv EXCEPT !.pc = "returned", !.out = NilErr]
    /\ UNCHANGED cvFrame

NextValidator ==
    \/ ValidateStart
    \/ ValidateOne
    \/ ValidateReturn

SpecValidator == InitValidator /\ [][NextValidator]_vars

\* ------------------------------------------- the caller writes its slice
\* the slices the caller passes: interceptors that call next, that return
\* early and that change the result
CallerLists ==
    { ics \in InterceptorLists :
        /\ Len(ics) <= MaxConcN
        /\ \A k \in 1..Len(ics) : ics[k].kind \in {"pass", "short", "modify"} }

InitCaller ==
    /\ terminal \in HandlerKinds
    /\ interceptors \in CallerLists
    /\ caller = Caller(interceptors)
    /\ cv = NoValidate
    /\ mrg = NoMerge
    /\ cfg = NoConfig
    /\ regs = NoRegisterAll
    /\ reg = NoRegister
    /\ werr = NoWrap
    /\ exec = NoExec
    /\ cpc = "entry"
    /\ i = 0
    /\ handler = H
    /\ closures = << >>
    /\ pipeline = NilFunc
    /\ ctx = NewUniversalContext(NilContext, "", "", TestMeta("", ""))
    /\ stack = << >>
    /\ calls = << >>
    /\ rets = << >>
    /\ ret = NoRet
    /\ status = "idle"
    /\ ninv = 0
    /\ nret = 0
    /\ nbuild = 1
    /\ ctx0 = ctx
    /\ seen = << >>
    /\ parked = IdleInvocation
    /\ prev = "none"

\* interceptors[k] = v, by the caller that passed the slice as
\* Chain(handler, interceptors...): the slice Chain received shares its
\* elements with the caller's
WriteSlice ==
    /\ cpc = "returned"
    /\ status \in {"idle", "returned"}
    /\ caller.writes < MaxWrites
    /\ \E k \in 1..Len(interceptors) : \E v \in Storable(k) :
          /\ v # interceptors[k]
          /\ interceptors' = [interceptors EXCEPT ![k] = v]
    /\ caller' = [caller EXCEPT !.writes = @ + 1, !.ninv = ninv, !.status = status]
    /\ UNCHANGED <<terminal, cpc, i, handler, closures, pipeline, nbuild>>
    /\ UNCHANGED callVars
    /\ UNCHANGED <<parked, exec, werr, reg, regs, cfg, mrg, cv>>

NextCaller ==
    \/ ChainEmpty
    \/ ChainLoopInit
    \/ ChainLoop
    \/ ChainReturn
    \/ WriteSlice
    \/ \E c \in ConcContexts : Invoke(c)
    \/ InterceptShort
    \/ InterceptCallNext
    \/ InterceptPost
    \/ HandlerRun

SpecCaller == InitCaller /\ [][NextCaller]_vars

\* ------------------------------------ interceptors that call next again
\* the argument lists with interceptors that call next once, two times, up
\* to three times, or not at all
RepeatLists ==
    UNION { { [j \in 1..len |-> Interceptor(j - 1, ks[j])] :
                ks \in [1..len -> {"pass", "twice", "retry", "fail"}] }
            : len \in 0..MaxConcN }

InitRepeat ==
    /\ terminal \in HandlerKinds
    /\ interceptors \in RepeatLists
    /\ caller = NoCaller
    /\ cv = NoValidate
    /\ mrg = NoMerge
    /\ cfg = NoConfig
    /\ regs = NoRegisterAll
    /\ reg = NoRegister
    /\ werr = NoWrap
    /\ exec = NoExec
    /\ cpc = "entry"
    /\ i = 0
    /\ handler = H
    /\ closures = << >>
    /\ pipeline = NilFunc
    /\ ctx = NewUniversalContext(NilContext, "", "", TestMeta("", ""))
    /\ stack = << >>
    /\ calls = << >>
    /\ rets = << >>
    /\ ret = NoRet
    /\ status = "idle"
    /\ ninv = 0
    /\ nret = 0
    /\ nbuild = 1
    /\ ctx0 = ctx
    /\ seen = << >>
    /\ parked = IdleInvocation
    /\ prev = "none"

\* the steps of Chain and of an invocation
ChainSteps ==
    \/ ChainEmpty
    \/ ChainLoopInit
    \/ ChainLoop
    \/ ChainReturn

InvocationSteps ==
    \/ InterceptShort
    \/ InterceptCallNext
    \/ InterceptCallAgain
    \/ InterceptPost
    \/ HandlerRun

NextRepeat ==
    \/ ChainSteps
    \/ \E c \in ConcContexts : Invoke(c)
    \/ InvocationSteps

\* a call that has started goes on: the goroutine running it is scheduled
SpecRepeat == InitRepeat /\ [][NextRepeat]_vars /\ WF_vars(InvocationSteps)

\* ------------------------------------------- values attached by layers
\* the argument lists with interceptors that attach a value, pass, return
\* early or change the result
AttachLists ==
    { ics \in InterceptorLists :
        /\ Len(ics) <= MaxConcN
        /\ \A k \in 1..Len(ics) : ics[k].kind \in {"pass", "setvalue", "short", "modify"} }

InitShared ==
    /\ terminal \in {"ok", "attach"}
    /\ interceptors \in AttachLists
    /\ caller = NoCaller
    /\ cv = NoValidate
    /\ mrg = NoMerge
    /\ cfg = NoConfig
    /\ regs = NoRegisterAll
    /\ reg = NoRegister
    /\ werr = NoWrap
    /\ exec = NoExec
    /\ cpc = "entry"
    /\ i = 0
    /\ handler = H
    /\ closures = << >>
    /\ pipeline = NilFunc
    /\ ctx = NewUniversalContext(NilContext, "", "", TestMeta("", ""))
    /\ stack = << >>
    /\ calls = << >>
    /\ rets = << >>
    /\ ret = NoRet
    /\ status = "idle"
    /\ ninv = 0
    /\ nret = 0
    /\ nbuild = 1
    /\ ctx0 = ctx
    /\ seen = << >>
    /\ parked = IdleInvocation
    /\ prev = "none"

NextShared ==
    \/ ChainEmpty
    \/ ChainLoopInit
    \/ ChainLoop
    \/ ChainReturn
    \/ \E c \in ConcContexts : Invoke(c)
    \/ InterceptShort
    \/ InterceptCallNext
    \/ InterceptPost
    \/ HandlerRun

SpecShared == InitShared /\ [][NextShared]_vars

\* ------------------------------------------------------------ properties
Done == status = "returned"

\* every interceptor of the list calls its next-function on this context
AllCallNext == \A k \in 1..n : CallsNext(interceptors[k], ctx)

\* position (from 0) of the first interceptor that does not call next; n if none
FirstStop ==
    IF AllCallNext THEN n
    ELSE (CHOOSE k \in 1..n : /\ ~CallsNext(interceptors[k], ctx)
                              /\ \A j \in 1..(k - 1) : CallsNext(interceptors[j], ctx)) - 1

EnterSeq(m) == [j \in 1..m |-> Enter(j - 1)]
ExitSeq(m) == [j \in 1..m |-> Exit(m - j)]
Count(e) == Cardinality({j \in 1..Len(calls) : calls[j] = e})
IsPrefix(s, t) == Len(s) <= Len(t) /\ SubSeq(t, 1, Len(s)) = s

\* r as filtered through the post-next logic of positions k-1, ..., 0
RECURSIVE Unwind(_, _)
Unwind(k, r) == IF k = 0 THEN r ELSE Unwind(k - 1, PostReturn(interceptors[k], r))

\* the suffixes that "modify" interceptors k, ..., n-1 append, innermost first
RECURSIVE ModSuffix(_)
ModSuffix(k) == IF k >= n THEN "" ELSE ModSuffix(k + 1) \o "-modified-" \o ToString(k)

Unauthorized == Pair(NilResult, NewError("unauthorized"))
Canceled == Pair(NilResult, NewError("context canceled"))

\* C1: when n > 0 and every interceptor calls next, one invocation logs
\* enter-I0 .. enter-I(n-1), handler, exit-I(n-1) .. exit-I0, in that order
\* (the log of a running invocation is always a prefix of that sequence).
C1_NestedOrder ==
    (status \in {"running", "returned"} /\ n > 0 /\ AllCallNext) =>
        LET expected == EnterSeq(n) \o <<HandlerEv>> \o ExitSeq(n)
        IN /\ IsPrefix(calls, expected)
           /\ Done => calls = expected

C1_Witness ==
    /\ Done /\ n = 3 /\ AllCallNext
    /\ calls = <<Enter(0), Enter(1), Enter(2), HandlerEv, Exit(2), Exit(1), Exit(0)>>

\* C2: with an empty interceptor list Chain returns the terminal handler
\* itself: no closure is created, an invocation runs the handler's frame and
\* nothing else, and the caller gets the handler's own result and error.
C2_EmptyIsHandler ==
    (cpc = "returned" /\ n = 0) =>
        /\ pipeline = H
        /\ closures = << >>
        /\ status # "panic"
        /\ status = "running" => stack = <<HandlerFrame>>
        /\ Done => /\ ret = HandlerReturn(terminal, ctx)
                   /\ calls = <<HandlerEv>>
                   /\ rets = <<[id |-> -1, r |-> ret]>>

C2_Witness ==
    /\ Done /\ n = 0 /\ terminal = "value"
    /\ ret = Pair(NilResult, NewError("context value not propagated"))

\* C3 as stated: when interceptor k returns without calling next, no later
\* interceptor and not the handler executes, and the pair interceptor k
\* returned is the pipeline's pair.
C3_Original ==
    (Done /\ FirstStop < n) =>
        /\ \A j \in 1..Len(calls) : calls[j].ev # "handler" /\ calls[j].id <= FirstStop
        /\ ret = ShortCircuitReturn(interceptors[FirstStop + 1], ctx)

\* C3 amended: when interceptor k returns without calling next, no later
\* interceptor and not the handler executes (also while the invocation is
\* running), and the pair interceptor k returned becomes the pipeline's pair
\* as filtered through the post-next logic of the interceptors before k.
C3_ShortCircuit ==
    (status \in {"running", "returned"} /\ FirstStop < n) =>
        /\ \A j \in 1..Len(calls) : calls[j].ev # "handler" /\ calls[j].id <= FirstStop
        /\ \A j \in 1..Len(stack) : stack[j].f = "interceptor" /\ stack[j].ic.id <= FirstStop
        /\ Done => ret = Unwind(FirstStop, ShortCircuitReturn(interceptors[FirstStop + 1], ctx))

C3_Witness ==
    /\ Done /\ n = 3 /\ FirstStop = 1
    /\ interceptors[1].kind = "pass" /\ interceptors[2].kind = "fail"
    /\ ret = Pair(NilResult, NewError("interceptor error"))

\* C4: when interceptor k returns without calling next and the earlier ones
\* call next, the log is exactly enter-I0 .. enter-Ik, exit-I(k-1) .. exit-I0.
C4_ShortCircuitLog ==
    (Done /\ FirstStop < n) => calls = EnterSeq(FirstStop + 1) \o ExitSeq(FirstStop)

C4_Witness ==
    /\ Done /\ n = 3 /\ FirstStop = 1
    /\ calls = <<Enter(0), Enter(1), Exit(0)>>

\* C5: no layer ever executes twice in one invocation, and when no
\* interceptor short-circuits every interceptor and the handler have
\* executed exactly once when the invocation returns.
C5_ExactlyOnce ==
    /\ \A k \in 0..(n - 1) : Count(Enter(k)) <= 1 /\ Count(Exit(k)) <= 1
    /\ Count(HandlerEv) <= 1
    /\ (Done /\ AllCallNext) =>
          /\ \A k \in 0..(n - 1) : Count(Enter(k)) = 1 /\ Count(Exit(k)) = 1
          /\ Count(HandlerEv) = 1

C5_Witness ==
    /\ Done /\ n = 3 /\ AllCallNext
    /\ \A k \in 0..2 : Count(Enter(k)) = 1
    /\ Count(HandlerEv) = 1

\* C6: when the handler returns an error and every interceptor returns what
\* its next-function returned, the pipeline returns the handler's pair with
\* that same error, and the handler ran once (no retry).
C6_ErrorPropagates ==
    (/\ Done /\ AllCallNext
     /\ HandlerReturn(terminal, ctx).err # NilErr
     /\ \A k \in 1..n : PostReturn(interceptors[k], HandlerReturn(terminal, ctx))
                          = HandlerReturn(terminal, ctx)) =>
        /\ rets[1].id = -1
        /\ rets[1].r.err # NilErr
        /\ ret = rets[1].r
        /\ Count(HandlerEv) = 1

C6_Witness ==
    /\ Done /\ n = 3 /\ AllCallNext /\ terminal = "value"
    /\ ret.err = NewError("context value not propagated")

\* C7: a running invocation has handed no pair to the caller and a finished
\* one exactly one; for n > 0 it is the pair the outermost interceptor
\* returned, which is its post-next logic applied to what its next-function
\* returned when it called next.
C7_OutermostPair ==
    /\ status = "running" => nret = 0
    /\ Done => nret = 1
    /\ (Done /\ n > 0) =>
          /\ rets[Len(rets)].id = 0
          /\ ret = rets[Len(rets)].r
          /\ CallsNext(interceptors[1], ctx) =>
                ret = PostReturn(interceptors[1], rets[Len(rets) - 1].r)

C7_Witness ==
    /\ Done /\ n = 2 /\ interceptors[1].kind = "modify"
    /\ rets[Len(rets) - 1].r = Pair(Str("short-circuit-result"), NilErr)
    /\ ret = Pair(Str("short-circuit-result-modified-0"), NilErr)

\* C8: when every interceptor appends its suffix to the successful result
\* of next, the handler's result gets the suffix of the last interceptor
\* first and the suffix of the first interceptor last.
C8_InnermostFirst ==
    (/\ Done /\ n >= 2
     /\ \A k \in 1..n : interceptors[k].kind = "modify"
     /\ HandlerReturn(terminal, ctx).err = NilErr) =>
        ret = Pair(Str(HandlerReturn(terminal, ctx).result.s \o ModSuffix(0)), NilErr)

C8_Witness ==
    /\ Done /\ n = 2
    /\ \A k \in 1..n : interceptors[k].kind = "modify"
    /\ ret = Pair(Str("result-modified-1-modified-0"), NilErr)

\* the pipeline Chain(H, Auth, Logging) invoked with empty metadata
AuthThenLogging ==
    /\ n = 2
    /\ interceptors[1].kind = "auth"
    /\ interceptors[2].kind = "pass"
    /\ ctx.Meta.UserID = ""

\* C9 as stated: Chain(H, Auth, Logging) with empty metadata returns
\* (nil, unauthorized), the handler and Logging's post-next logic do not
\* execute, and Logging's pre-next logic does.
C9_Original ==
    (Done /\ AuthThenLogging) =>
        /\ ret = Unauthorized
        /\ Count(HandlerEv) = 0
        /\ Count(Exit(1)) = 0
        /\ Count(Enter(1)) = 1

\* C9 amended: Chain(H, Auth, Logging) with empty metadata returns
\* (nil, unauthorized) and neither the handler nor any part of Logging
\* executes: Auth is interceptors[0], the outermost layer.
C9_AuthOuter ==
    (status \in {"running", "returned"} /\ AuthThenLogging) =>
        /\ Count(HandlerEv) = 0
        /\ Count(Exit(1)) = 0
        /\ Count(Enter(1)) = 0
        /\ Done => ret = Unauthorized /\ calls = <<Enter(0)>>

C9_Witness ==
    /\ Done /\ AuthThenLogging
    /\ ret = Unauthorized

\* C10: on a context cancelled before the invocation, an interceptor that
\* checks ctx.Done() (reached because the earlier ones call next) makes the
\* pipeline return (nil, cancellation error) without running the handler;
\* without a short-circuiting interceptor the handler runs all the same.
C10_Cancellation ==
    /\ (/\ Done /\ ctx.Context.cancelled
        /\ FirstStop < n /\ interceptors[FirstStop + 1].kind = "cancel") =>
          /\ ret = Canceled
          /\ Count(HandlerEv) = 0
    /\ (Done /\ ctx.Context.cancelled /\ AllCallNext) =>
          /\ Count(HandlerEv) = 1
          /\ ret = Unwind(n, HandlerReturn(terminal, ctx))

C10_Witness ==
    /\ Done /\ ctx.Context.cancelled /\ n = 2
    /\ interceptors[1].kind = "pass" /\ interceptors[2].kind = "cancel"
    /\ ret = Canceled /\ Count(HandlerEv) = 0

\* ------------------------------------------- properties of C11 .. C20
\* What the nested calls  I(k)( I(k+1)( .. H .. ) )  do on context c when run
\* alone: the pair returned, the log, and the context after the call.
RECURSIVE Nested(_, _)
Nested(k, c) ==
    IF k >= n
    THEN [ret |-> HandlerReturn(terminal, c), calls |-> <<HandlerEv>>, ctx |-> c]
    ELSE LET ic == interceptors[k + 1]
         IN IF CallsNext(ic, c)
            THEN LET inner == Nested(k + 1, PreContext(ic, c))
                 IN [ret   |-> PostReturn(ic, inner.ret),
                     calls |-> <<Enter(k)>> \o inner.calls \o <<Exit(k)>>,
                     ctx   |-> inner.ctx]
            ELSE [ret |-> ShortCircuitReturn(ic, c), calls |-> <<Enter(k)>>, ctx |-> c]

Alone(c) == Nested(0, c)

\* the interceptors met by following the nextFunc links from function value fn
RECURSIVE Captured(_)
Captured(fn) ==
    IF fn = H \/ fn = NilFunc THEN << >>
    ELSE <<closures[fn].currentInterceptor>> \o Captured(closures[fn].nextFunc)

\* the function value at the end of the nextFunc links
RECURSIVE Innermost(_)
Innermost(fn) == IF fn = H \/ fn = NilFunc THEN fn ELSE Innermost(closures[fn].nextFunc)

\* C11: every pipeline Chain builds from the same handler and interceptors,
\* whichever call of Chain built it, captures the interceptors in argument
\* order around the handler, and every invocation logs and returns what the
\* nested calls of exactly those arguments give on the caller's context.
C11_Deterministic ==
    /\ cpc = "returned" =>
          /\ Captured(pipeline) = interceptors
          /\ Innermost(pipeline) = H
    /\ Done =>
          /\ calls = Alone(ctx0).calls
          /\ ret = Alone(ctx0).ret

C11_Witness ==
    /\ nbuild = 2 /\ Done /\ n = 2 /\ pipeline = 4
    /\ closures[4].currentInterceptor = closures[2].currentInterceptor
    /\ closures[4].nextFunc # closures[2].nextFunc
    /\ Len(calls) = 5

\* an invocation that has started has logged a prefix of what it logs alone,
\* and a finished one has logged and returned exactly what it does alone
AsAlone(v) ==
    /\ v.status = "running" => IsPrefix(v.calls, Alone(v.ctx0).calls)
    /\ v.status = "returned" =>
          /\ v.calls = Alone(v.ctx0).calls
          /\ v.ret = Alone(v.ctx0).ret
          /\ v.nret = 1

\* C12: when two goroutines invoke the same pipeline value, each with its own
\* Request Context, under every interleaving each invocation logs its own
\* nested enter/exit order and returns the pair it returns when run alone,
\* and no step of an invocation writes the pipeline or its closures.
C12_Concurrent ==
    /\ [](/\ AsAlone(Invocation(ctx, stack, calls, rets, ret, status, nret, ctx0, seen))
          /\ AsAlone(parked))
    /\ [][cpc = "returned" => UNCHANGED <<terminal, interceptors, closures, pipeline>>]_vars

C12_Witness ==
    /\ status = "running" /\ parked.status = "running"
    /\ Len(calls) >= 2 /\ Len(parked.calls) >= 2
    /\ ctx0 # parked.ctx0
    /\ Alone(ctx0).ret # Alone(parked.ctx0).ret

\* the frames of a running invocation are interceptors[0], interceptors[1],
\* ... in this order, with the handler's frame below interceptors[n-1]
StackShape ==
    /\ Len(stack) <= n + 1
    /\ \A j \in 1..Len(stack) :
          IF j <= n
          THEN stack[j].f = "interceptor" /\ stack[j].ic = interceptors[j]
          ELSE stack[j].f = "handler"

\* C13: no invocation writes the pipeline or its closures, and every
\* invocation, the first and the later ones, however the one before it ended,
\* starts at interceptors[0], nests interceptors[0] .. interceptors[n-1] and
\* the handler in this order, and logs and returns what it does when run alone.
C13_Stateless ==
    /\ [](status \in {"running", "returned"} =>
            /\ StackShape
            /\ status = "running" => stack # << >> /\ IsPrefix(calls, Alone(ctx0).calls)
            /\ Done => calls = Alone(ctx0).calls /\ ret = Alone(ctx0).ret)
    /\ [][cpc = "returned" => pipeline' = pipeline /\ closures' = closures]_vars

C13_Witness ==
    /\ ninv = 2 /\ prev = "error" /\ Done /\ n = 3
    /\ ret.err = NilErr /\ Len(calls) = 7

\* the entries of seen that interceptors after position k and the handler made
Downstream(k) == { j \in 1..Len(seen) : seen[j].id > k \/ seen[j].id = -1 }

\* C14: in one invocation, the value that interceptors[k] attaches to the
\* Request Context before it calls next is in the Request Context that every
\* interceptor after position k and the handler receive, together with the
\* values the caller's context carried; Protocol, Method and Meta arrive at
\* every layer as the context was created with them.
C14_ContextPropagates ==
    status \in {"running", "returned"} =>
        /\ \A j \in 1..Len(seen) :
              /\ seen[j].ctx.Protocol = ctx0.Protocol
              /\ seen[j].ctx.Method = ctx0.Method
              /\ seen[j].ctx.Meta = ctx0.Meta
              /\ ctx0.Context.values \subseteq seen[j].ctx.Context.values
        /\ \A m \in 1..Len(seen) :
              (seen[m].id >= 0 /\ interceptors[seen[m].id + 1].kind = "setvalue") =>
                  \A j \in Downstream(seen[m].id) :
                      /\ j > m
                      /\ Key(interceptors[seen[m].id + 1]) \in seen[j].ctx.Context.values

C14_Witness ==
    /\ Done /\ n = 3 /\ Len(seen) = 4
    /\ interceptors[1].kind = "setvalue" /\ interceptors[2].kind = "setvalue"
    /\ "key1" \notin ctx0.Context.values
    /\ "key1" \notin seen[1].ctx.Context.values
    /\ "key2" \notin seen[2].ctx.Context.values
    /\ {"key1", "key2"} \subseteq seen[3].ctx.Context.values
    /\ seen[4].id = -1 /\ {"key1", "key2"} \subseteq seen[4].ctx.Context.values
    /\ ctx0.Protocol = "grpc"

Hooked == exec.pc \in {"hooked", "returned"}

\* C15: ExecutePipeline calls no bridge hook until the pipeline has returned,
\* then calls exactly one hook exactly once with the native context: OnError
\* with the pipeline's error if that error is not nil, otherwise OnSuccess
\* with the pipeline's result; and it returns the pipeline's pair unchanged.
C15_OneHook ==
    /\ exec.pc \in {"start", "created", "resolved", "chain"} =>
          exec.hooks = << >> /\ exec.captured = << >>
    /\ Hooked =>
          /\ status = "returned"
          /\ Len(exec.hooks) = 1
          /\ exec.hooks[1].nativeCtx = exec.nativeCtx
          /\ (exec.hooks[1].hook = "OnError") = (ret.err # NilErr)
          /\ (exec.hooks[1].hook = "OnSuccess") = (ret.err = NilErr)
          /\ exec.hooks[1].arg = IF ret.err # NilErr THEN ret.err ELSE ret.result
          /\ Len(exec.captured) <= 1
    /\ exec.pc = "returned" =>
          /\ exec.out = ret
          /\ exec.out = Alone(exec.uCtx).ret

C15_Witness ==
    /\ exec.pc = "returned"
    /\ n = 2 /\ Len(calls) >= 2
    /\ exec.out.err # NilErr
    /\ exec.hooks = << [hook |-> "OnError", nativeCtx |-> exec.nativeCtx,
                        arg |-> exec.out.err] >>
    /\ exec.captured # << >>

\* what ExecutePipeline has called, in order, once it has called Chain
FlowLog ==
    << [op |-> "CreateUniversalContext", arg |-> exec.nativeCtx],
       [op |-> "Resolve", arg |-> <<exec.uCtx, exec.handlerKey>>],
       [op |-> "Chain", arg |-> << >>] >>

\* C16: ExecutePipeline creates the Request Context from nativeCtx once, then
\* calls Resolve once with that context and handlerKey, then runs the
\* interceptors Resolve returned, in their order, around businessHandler on
\* that same context, once; no interceptor and no handler runs before
\* Resolve has returned, and the hook comes after the pipeline.
C16_Flow ==
    /\ exec.pc # "none"
    /\ IsPrefix(exec.log, FlowLog)
    /\ exec.pc \in {"start", "created"} =>
          /\ Len(exec.log) = (IF exec.pc = "start" THEN 0 ELSE 1)
          /\ cpc = "idle" /\ status = "idle" /\ ninv = 0
          /\ calls = << >> /\ seen = << >> /\ stack = << >>
    /\ exec.pc # "start" =>
          exec.uCtx = CreateUniversalContext(exec.bridge, exec.nativeCtx)
    /\ exec.pc \notin {"start", "created"} =>
          /\ Len(exec.log) >= 2
          /\ exec.resolved = exec.resolver.Interceptors
    /\ exec.pc \in {"chain", "hooked", "returned"} =>
          /\ exec.log = FlowLog
          /\ interceptors = exec.resolved
          /\ terminal = exec.businessHandler
          /\ cpc = "returned" => Captured(pipeline) = exec.resolved
    /\ status \in {"running", "returned"} =>
          /\ ninv = 1
          /\ ctx0 = exec.uCtx
          /\ IsPrefix(calls, Alone(exec.uCtx).calls)
          /\ \A j \in 1..Len(seen) : seen[j].ctx.Meta = exec.uCtx.Meta
    /\ Hooked =>
          /\ calls = Alone(exec.uCtx).calls
          /\ LET en == SelectSeq(calls, LAMBDA e : e.ev = "enter")
             IN en = [j \in 1..Len(en) |-> Enter(exec.resolved[j].id)]

C16_Witness ==
    /\ exec.pc = "returned"
    /\ Len(exec.resolved) = 2
    /\ calls = <<Enter(0), Enter(1), HandlerEv, Exit(1), Exit(0)>>
    /\ exec.uCtx.Method = "GET /api/users"
    /\ exec.uCtx.Meta.UserID = "user123"
    /\ exec.handlerKey = "/api/users"
    /\ exec.hooks[1].hook = "OnSuccess"

\* C17: the last call NewInterceptorError(name, err) returned nil if err was
\* nil, whatever the name, and otherwise a non-nil InterceptorError whose
\* InterceptorName is name and whose Err (what Unwrap returns) is err.
C17_NewInterceptorError ==
    werr.last.n > 0 =>
        LET c == werr.last
        IN /\ c.err = NilErr => c.out = NilErr
           /\ c.err # NilErr =>
                 /\ c.out # NilErr
                 /\ IsInterceptorError(c.out)
                 /\ Head(c.out).name = c.name
                 /\ Unwrap(c.out) = c.err
                 /\ c.out = InterceptorError(c.name, c.err)

C17_Witness ==
    /\ werr.last.n = 2
    /\ werr.last.err = InterceptorError("Interceptor1", CustomError("<nil>"))
    /\ werr.last.name = "Interceptor2"
    /\ Len(werr.last.out) = 3

\* the nil case of C17 has happened: two calls with a nil err returned nil
C17_NilWitness ==
    /\ werr.last.n = 2 /\ werr.last.err = NilErr /\ werr.last.out = NilErr
    /\ werr.names = <<"Interceptor1", "Interceptor3">>

\* errors.Is(e, target): target is e or is reached from e by Unwrap
RECURSIVE ErrorsIs(_, _)
ErrorsIs(e, target) ==
    IF e = target THEN TRUE
    ELSE IF IsInterceptorError(e) /\ Unwrap(e) # NilErr THEN ErrorsIs(Unwrap(e), target)
    ELSE FALSE

\* errors.As(e, &target) with target a *InterceptorError: the name of the
\* first InterceptorError on the Unwrap chain of e, "" when there is none
ErrorsAs(e) == IF IsInterceptorError(e) THEN Head(e).name ELSE ""

\* C18: for a non-nil base wrapped with the names n_1 .. n_k, the value
\* reached after j <= k calls of Unwrap is the InterceptorError named n_(k-j)
\* around the same cause, it is base exactly when j = k, errors.Is finds base
\* from the outermost value, and errors.As finds the InterceptorError n_k.
C18_CausePreserved ==
    (werr.pc \in {"wrap", "unwrap"} /\ werr.base # NilErr) =>
        LET k == Len(werr.names)
            j == werr.steps
        IN /\ ErrorsIs(werr.wrapped, werr.base)
           /\ k >= 1 => ErrorsAs(werr.wrapped) = werr.names[k]
           /\ j <= k =>
                 /\ (werr.cur = werr.base) = (j = k)
                 /\ j < k => ErrorsAs(werr.cur) = werr.names[k - j]
                 /\ ErrorsIs(werr.cur, werr.base)
           /\ j > k => IsInterceptorError(werr.base)

C18_Witness ==
    /\ werr.pc = "unwrap"
    /\ werr.names = <<"Interceptor1", "Interceptor2", "Interceptor3">>
    /\ werr.steps = 3
    /\ werr.base = NewError("base error")
    /\ werr.cur = werr.base
    /\ Len(werr.wrapped) = 4

\* position of a method name in alphabetical order
Rank(name) == CHOOSE j \in 1..Len(MethodsByName) : MethodsByName[j].name = name
MethodNamed(name) == MethodsByName[Rank(name)]

\* the exported methods of c whose signature is exactly func(context.Context)
Routable(c) ==
    { name \in c.methods :
         /\ MethodNamed(name).exported
         /\ MethodNamed(name).params = <<"context.Context">>
         /\ MethodNamed(name).results = << >> }

CalledNames == { reg.called[j].name : j \in 1..Len(reg.called) }

\* the routable methods that panic when called
Panicking(c) == { name \in Routable(c) : Does(c, name) # "return" }

\* C19: RegisterRouter calls only exported methods of signature exactly
\* func(context.Context), each at most once, in alphabetical order, each with
\* ctx or, if ctx is nil, a background context; when none of the called
\* methods panics it returns nil having called every such method.
C19_CallsEveryRoutable ==
    reg.pc # "none" =>
        LET c == reg.controller
        IN /\ CalledNames \subseteq Routable(c)
           /\ \A j \in 1..Len(reg.called) :
                 /\ reg.called[j].ctx = IF reg.given.isNil THEN Background ELSE reg.given
                 /\ ~reg.called[j].ctx.isNil
                 /\ \A k \in 1..Len(reg.called) :
                       j < k => Rank(reg.called[j].name) < Rank(reg.called[k].name)
           /\ (reg.pc = "returned" /\ Panicking(c) = {}) =>
                 /\ reg.out = NilErr
                 /\ CalledNames = Routable(c)
                 /\ Len(reg.called) = Cardinality(Routable(c))

C19_Witness ==
    /\ reg.pc = "returned"
    /\ reg.controller.methods = MethodNames
    /\ Panicking(reg.controller) = {}
    /\ reg.given.isNil
    /\ reg.out = NilErr
    /\ reg.called = << [name |-> "CreateUser", ctx |-> Background],
                       [name |-> "GetUsers", ctx |-> Background],
                       [name |-> "UpdateUser", ctx |-> Background] >>

\* C20: when a called method panics, RegisterRouter returns (the panic is
\* recovered) a non-nil error that names the method; the methods before it
\* in alphabetical order have been called, it has been called, and no method
\* after it is called.
C20_FailFast ==
    (reg.pc # "none" /\ Panicking(reg.controller) # {}) =>
        LET c == reg.controller
            first == CHOOSE name \in Panicking(c) :
                        \A o \in Panicking(c) : Rank(name) <= Rank(o)
        IN /\ \A name \in CalledNames : Rank(name) <= Rank(first)
           /\ reg.pc = "returned" =>
                 /\ reg.out # NilErr
                 /\ reg.out = PanicErr(first, Recover(Does(c, first)))
                 /\ CalledNames = { name \in Routable(c) : Rank(name) <= Rank(first) }
                 /\ reg.called[Len(reg.called)].name = first

C20_Witness ==
    /\ reg.pc = "returned"
    /\ reg.controller.methods = MethodNames
    /\ Panicking(reg.controller) = {"GetUsers", "UpdateUser"}
    /\ Does(reg.controller, "GetUsers") = "intentional panic for testing"
    /\ reg.out = NewError("method *adaptertemplate.testController.GetUsers panicked: intentional panic for testing")
    /\ reg.called = << [name |-> "CreateUser", ctx |-> CancelCtx],
                       [name |-> "GetUsers", ctx |-> CancelCtx] >>

\* ------------------------------------------- properties of C21 .. C30
\* the controllers of the slice whose registration fails
Failing == { k \in 1..Len(regs.controllers) : Panicking(regs.controllers[k]) # {} }

\* the names RegisterRouter calls on controller c, alone, in order
RECURSIVE CalledAlone(_, _)
CalledAlone(c, k) ==
    IF k > Len(MethodsByName) THEN << >>
    ELSE LET m == MethodsByName[k]
         IN IF m.name \notin Routable(c) THEN CalledAlone(c, k + 1)
            ELSE IF Does(c, m.name) # "return" THEN <<m.name>>
            ELSE <<m.name>> \o CalledAlone(c, k + 1)

\* the methods recorded for the controller at 0-based index k
CalledOf(k) ==
    LET idx == SelectSeq(regs.called, LAMBDA e : e.controller = k)
    IN [j \in 1..Len(idx) |-> idx[j].name]

\* C21: RegisterRouters registers the controllers in slice order; at the
\* first controller whose registration fails it returns an error carrying
\* that controller's index and wrapping its error, having called no method
\* of a later controller and every method of each earlier controller; it
\* returns nil exactly when no controller fails, all being registered.
C21_RegisterRouters ==
    regs.pc # "none" =>
        /\ \A j, k \in 1..Len(regs.called) :
              j < k => regs.called[j].controller <= regs.called[k].controller
        /\ \A k \in Failing : \A e \in 1..Len(regs.called) : regs.called[e].controller < k
        /\ regs.pc = "returned" =>
              /\ (regs.out = NilErr) = (Failing = {})
              /\ Failing = {} =>
                    \A k \in 1..Len(regs.controllers) :
                        CalledOf(k - 1) = CalledAlone(regs.controllers[k], 1)
              /\ Failing # {} =>
                    LET f == CHOOSE k \in Failing : \A o \in Failing : k <= o
                    IN /\ Head(regs.out) = [type |-> "wrapError",
                                            name |-> "controller[" \o ToString(f - 1) \o "]"]
                       /\ Tail(regs.out) # NilErr
                       /\ \A k \in 1..f :
                             CalledOf(k - 1) = CalledAlone(regs.controllers[k], 1)
                       /\ \A k \in (f + 1)..Len(regs.controllers) : CalledOf(k - 1) = << >>

C21_Witness ==
    /\ regs.pc = "returned"
    /\ Len(regs.controllers) = 3
    /\ regs.controllers[1] = TestController
    /\ regs.controllers[3] = TestController
    /\ Failing = {2}
    /\ Head(regs.out).name = "controller[1]"
    /\ CalledOf(0) = <<"CreateUser", "GetUsers", "UpdateUser">>
    /\ CalledOf(1) = <<"CreateUser">>
    /\ CalledOf(2) = << >>

\* the data of the loaders of the Config, in slice order
Loaded == [j \in 1..Len(cfg.loaders) |-> cfg.loaders[j].data]

\* the value at a path of field names
RECURSIVE At(_, _)
At(x, path) == IF path = << >> THEN x ELSE At(x.f[Head(path)], Tail(path))

Highest(S) == CHOOSE j \in S : \A k \in S : k <= j

\* the exported fields of the configuration type
Fields == { <<"Server", "Host">>, <<"Server", "Port">>, <<"Timeout">>, <<"Tags">>,
            <<"Features">> }

ScalarFields == { <<"Server", "Host">>, <<"Server", "Port">> }

\* a Load that merged with DefaultMerge has returned nil
LoadedByDefault == cfg.pc = "idle" /\ cfg.returned = "ok" /\ cfg.used = "DefaultMerge"

\* C22 as stated: after a successful Load with the default merge every field
\* holds the value loaded by the highest-index loader that set it (gave it a
\* value other than the zero value of its type), fields set by no loader
\* being zero.
C22_Original ==
    LoadedByDefault =>
        \A path \in Fields :
            LET set == { j \in 1..Len(Loaded) : ~IsZero(At(Loaded[j], path)) }
            IN At(Get, path) = IF set = {} THEN At(ZeroConfig, path)
                               ELSE At(Loaded[Highest(set)], path)

\* C22: after a successful Load with the default merge, a scalar field (also
\* the target of a pointer) holds the value of the highest-index loader whose
\* value for it is not zero, a slice that of the highest-index loader whose
\* slice is not empty, a map for each key the value of the highest-index
\* loader whose map has the key; a pointer is nil only if it is nil in every
\* loader, and an unexported field stays zero.
C22_LastNonZeroWins ==
    LoadedByDefault =>
        /\ \A path \in ScalarFields :
              LET set == { j \in 1..Len(Loaded) : ~IsZero(At(Loaded[j], path)) }
              IN At(Get, path) = IF set = {} THEN At(ZeroConfig, path)
                                 ELSE At(Loaded[Highest(set)], path)
        /\ LET nonNil == { j \in 1..Len(Loaded) : ~Loaded[j].f.Timeout.nil }
               set == { j \in nonNil : ~IsZero(Loaded[j].f.Timeout.elem) }
           IN /\ Get.f.Timeout.nil = (nonNil = {})
              /\ Get.f.Timeout.elem = IF set = {} THEN VInt(0)
                                      ELSE Loaded[Highest(set)].f.Timeout.elem
        /\ LET set == { j \in 1..Len(Loaded) : Len(Loaded[j].f.Tags.elems) > 0 }
           IN Get.f.Tags = IF set = {} THEN NilSlice ELSE Loaded[Highest(set)].f.Tags
        /\ LET nonNil == { j \in 1..Len(Loaded) : ~Loaded[j].f.Features.nil }
               keys == UNION { DOMAIN Loaded[j].f.Features.m : j \in nonNil }
           IN /\ Get.f.Features.nil = (nonNil = {})
              /\ DOMAIN Get.f.Features.m = keys
              /\ \A key \in keys :
                    LET set == { j \in nonNil : key \in DOMAIN Loaded[j].f.Features.m }
                    IN Get.f.Features.m[key] = Loaded[Highest(set)].f.Features.m[key]
        /\ Get.f.note = VString("")

\* a later loader loaded a pointer to 0, an empty slice and a zero port: the
\* values of the earlier loader are kept
C22_Witness ==
    /\ LoadedByDefault
    /\ Len(Loaded) = 2
    /\ Loaded[1].f.Timeout = Ptr(VInt(30))
    /\ Loaded[2].f.Timeout = Ptr(VInt(0))
    /\ Loaded[2].f.Tags = Slice(<< >>)
    /\ Get.f.Timeout = Ptr(VInt(30))
    /\ Get.f.Tags = Slice(<<"tag1", "tag2">>)
    /\ Get.f.Server = ServerConfig("localhost", 8080)
    /\ Get.f.Features = Features(TRUE, FALSE)

\* the calls of loaders and of the merge function the running Load made
LoadsAndMerges == SelectSeq(cfg.log, LAMBDA e : e.op # "Validate")

\* the loaders (1-based) at which the Load fails: the loader returns an
\* error or the merge function rejects what it loaded
FailingLoaders ==
    { j \in 1..Len(cfg.loaders) :
        \/ cfg.loaders[j].err # NilErr
        \/ MergeCall(cfg.used, ZeroConfig, cfg.loaders[j].data).err # NilErr }

Returned == cfg.pc = "idle" /\ cfg.returned \in {"ok", "error"}

\* C23: Load calls the loaders in slice order and the merge function once
\* after each loader's Load, with what that loader loaded; when loader i's
\* Load or its merge fails, Load returns an error naming index i that wraps
\* the cause, and no later loader, merge or validator has been called.
C23_LoadOrder ==
    /\ \A k \in 1..Len(LoadsAndMerges) :
          LET e == LoadsAndMerges[k]
          IN /\ e.op = IF k % 2 = 1 THEN "Load" ELSE "merge"
             /\ e.i = (k - 1) \div 2
             /\ e.op = "merge" => e.arg = Loaded[e.i + 1]
    /\ Returned =>
          IF FailingLoaders = {}
          THEN /\ Len(LoadsAndMerges) = 2 * Len(cfg.loaders)
               /\ cfg.out # NilErr => Head(cfg.out).name = "config validation failed"
          ELSE LET f == CHOOSE j \in FailingLoaders : \A k \in FailingLoaders : j <= k
                   idx == ToString(f - 1)
               IN /\ cfg.returned = "error"
                  /\ cfg.log = LoadsAndMerges
                  /\ IF cfg.loaders[f].err # NilErr
                     THEN /\ cfg.out = Wrapf("loader[" \o idx \o "] failed",
                                             cfg.loaders[f].err)
                          /\ Len(cfg.log) = 2 * f - 1
                     ELSE /\ cfg.out = Wrapf("merge loader[" \o idx \o "] failed",
                                             NewError("merge error"))
                          /\ Len(cfg.log) = 2 * f

\* the merge of the second of three loaders failed, a validator being set
C23_Witness ==
    /\ Returned
    /\ Len(cfg.loaders) = 3
    /\ cfg.validator = "ServerValidator"
    /\ Head(cfg.out).name = "merge loader[1] failed"
    /\ [k \in 1..Len(cfg.log) |-> <<cfg.log[k].op, cfg.log[k].i>>]
          = << <<"Load", 0>>, <<"merge", 0>>, <<"Load", 1>>, <<"merge", 1>> >>
    /\ cfg.loaders[3].err # NilErr

\* the calls of the validator the running Load made
ValidateCalls == SelectSeq(cfg.log, LAMBDA e : e.op = "Validate")

\* the merge of what the first k loaders loaded
RECURSIVE MergeAll(_)
MergeAll(k) == IF k = 0 THEN ZeroConfig ELSE DefaultMerge(MergeAll(k - 1), Loaded[k])

\* C24: a validator that is set is called exactly once by a Load whose
\* loaders and merges all succeed, after the last merge and with the fully
\* merged value; if it returns an error, Load returns that error wrapped as
\* "config validation failed" and the stored value is not replaced; with no
\* validator such a Load returns nil and stores the merged value, whatever
\* it is.
C24_Validation ==
    /\ \A k \in 1..Len(cfg.log) :
          cfg.log[k].op = "Validate" =>
              /\ k = Len(cfg.log)
              /\ k = 2 * Len(cfg.loaders) + 1
              /\ cfg.log[k].arg = MergeAll(Len(cfg.loaders))
              /\ cfg.usedValidator # "nil"
    /\ (Returned /\ FailingLoaders # {}) => ValidateCalls = << >>
    /\ (Returned /\ FailingLoaders = {}) =>
          LET merged == MergeAll(Len(cfg.loaders))
              err == Validate(cfg.usedValidator, merged)
          IN IF cfg.usedValidator = "nil"
             THEN /\ ValidateCalls = << >>
                  /\ cfg.out = NilErr
                  /\ Get = merged
             ELSE /\ Len(ValidateCalls) = 1
                  /\ IF err # NilErr
                     THEN /\ cfg.out = Wrapf("config validation failed", err)
                          /\ Get = cfg.before
                     ELSE /\ cfg.out = NilErr
                          /\ Get = merged

\* a Load without validator stored a configuration with port 80; the next
\* Load, with ServerValidator, is refused and the stored value stays
C24_Witness ==
    /\ Returned
    /\ cfg.nload = 2
    /\ cfg.usedValidator = "ServerValidator"
    /\ cfg.out = Wrapf("config validation failed",
                       NewError("server port must be between 1024 and 65535"))
    /\ Len(ValidateCalls) = 1
    /\ Get = cfg.before
    /\ Get.f.Server = ServerConfig("localhost", 80)

\* m[key] as Go reads it: the zero value for a key the map does not have
MapIndex(x, key) == IF key \in DOMAIN x.m THEN x.m[key] ELSE VBool(FALSE)

MergedByDefault == mrg.pc = "returned" /\ mrg.fn = "DefaultMerge"

\* C25: after DefaultMerge(dst, src), every value of dst (scalar struct
\* field, slice, pointer target, map entry) that differs from its value
\* before the call equals a non-zero value of src, and every value for which
\* src holds the zero value (or an empty slice) is unchanged in dst.
C25_OnlyNonZeroOverrides ==
    MergedByDefault =>
        LET old == mrg.before
            new == mrg.dst
            src == mrg.src
        IN /\ \A path \in ScalarFields :
                 /\ At(new, path) # At(old, path) =>
                       At(new, path) = At(src, path) /\ ~IsZero(At(src, path))
                 /\ IsZero(At(src, path)) => At(new, path) = At(old, path)
           /\ new.f.Tags # old.f.Tags =>
                 new.f.Tags = src.f.Tags /\ Len(src.f.Tags.elems) > 0
           /\ Len(src.f.Tags.elems) = 0 => new.f.Tags = old.f.Tags
           /\ new.f.Timeout.nil # old.f.Timeout.nil => ~src.f.Timeout.nil
           /\ new.f.Timeout.elem # old.f.Timeout.elem =>
                 /\ ~src.f.Timeout.nil
                 /\ new.f.Timeout.elem = src.f.Timeout.elem
                 /\ ~IsZero(src.f.Timeout.elem)
           /\ src.f.Timeout.nil => new.f.Timeout = old.f.Timeout
           /\ IsZero(src.f.Timeout.elem) => new.f.Timeout.elem = old.f.Timeout.elem
           /\ src.f.Features.nil => new.f.Features = old.f.Features
           /\ \A key \in {"feature1", "feature2"} :
                 /\ MapIndex(new.f.Features, key) # MapIndex(old.f.Features, key) =>
                       /\ key \in DOMAIN src.f.Features.m
                       /\ MapIndex(new.f.Features, key) = src.f.Features.m[key]
                       /\ ~IsZero(src.f.Features.m[key])
                 /\ IsZero(MapIndex(src.f.Features, key)) =>
                       MapIndex(new.f.Features, key) = MapIndex(old.f.Features, key)
           /\ new.f.note = old.f.note

\* the same without the map entries: holds of DefaultMerge
C25_ExceptMapEntries ==
    MergedByDefault =>
        LET old == mrg.before
            new == mrg.dst
            src == mrg.src
        IN /\ \A path \in ScalarFields :
                 /\ At(new, path) # At(old, path) =>
                       At(new, path) = At(src, path) /\ ~IsZero(At(src, path))
                 /\ IsZero(At(src, path)) => At(new, path) = At(old, path)
           /\ new.f.Tags # old.f.Tags =>
                 new.f.Tags = src.f.Tags /\ Len(src.f.Tags.elems) > 0
           /\ Len(src.f.Tags.elems) = 0 => new.f.Tags = old.f.Tags
           /\ new.f.Timeout.nil # old.f.Timeout.nil => ~src.f.Timeout.nil
           /\ new.f.Timeout.elem # old.f.Timeout.elem =>
                 /\ ~src.f.Timeout.nil
                 /\ new.f.Timeout.elem = src.f.Timeout.elem
                 /\ ~IsZero(src.f.Timeout.elem)
           /\ src.f.Timeout.nil => new.f.Timeout = old.f.Timeout
           /\ IsZero(src.f.Timeout.elem) => new.f.Timeout.elem = old.f.Timeout.elem
           /\ src.f.Features.nil => new.f.Features = old.f.Features
           /\ new.f.note = old.f.note

\* dst.Features = {feature1: true}, src.Features = {feature1: false}: the
\* entry of dst is false after the call
C25_ZeroEntryOverrides ==
    /\ MergedByDefault
    /\ mrg.before.f.Features = Map([feature1 |-> VBool(TRUE)])
    /\ mrg.src.f.Features = Map([feature1 |-> VBool(FALSE)])
    /\ mrg.dst.f.Features = Map([feature1 |-> VBool(FALSE)])

\* the validators (1-based) that reject the configuration
Rejecting ==
    { j \in 1..Len(cv.validators) : ValidatorFunc(cv.validators[j], cv.cfg) # NilErr }

\* target is e or is reached from e by calls of Unwrap
RECURSIVE UnwrapsTo(_, _)
UnwrapsTo(e, target) ==
    IF e = target THEN TRUE
    ELSE IF e # NilErr /\ Head(e).type = "ValidationError" THEN UnwrapsTo(Tail(e), target)
    ELSE FALSE

\* C26: CompositeValidator.Validate runs the validators in the order given,
\* each at most once, and none after the first that returns an error; it
\* returns nil exactly when every validator returns nil; the error it
\* returns is the failing validator's own error, or (with more than one
\* validator) a ValidationError carrying its index whose Unwrap is that error.
C26_Composite ==
    /\ cv.ran = [k \in 1..Len(cv.ran) |-> k - 1]
    /\ \A j \in Rejecting : Len(cv.ran) <= j
    /\ cv.pc = "returned" =>
          /\ (cv.out = NilErr) = (Rejecting = {})
          /\ Rejecting = {} => Len(cv.ran) = Len(cv.validators)
          /\ Rejecting # {} =>
                LET f == CHOOSE j \in Rejecting : \A k \in Rejecting : j <= k
                    cause == ValidatorFunc(cv.validators[f], cv.cfg)
                IN /\ Len(cv.ran) = f
                   /\ UnwrapsTo(cv.out, cause)
                   /\ IF Len(cv.validators) > 1
                      THEN /\ Head(cv.out) = [type |-> "ValidationError",
                                              name |-> ToString(f - 1)]
                           /\ Tail(cv.out) = cause
                      ELSE cv.out = cause

\* of three validators the second rejects, the third would reject too
C26_Witness ==
    /\ cv.pc = "returned"
    /\ cv.validators = <<"pass", "validator2", "validator1">>
    /\ Rejecting = {2, 3}
    /\ cv.ran = <<0, 1>>
    /\ cv.out = ValidationError(1, NewError("database host empty"))

\* C27: a Load that returns an error leaves the stored configuration as it
\* was before the call (the zero value while no Load has succeeded); the
\* value Get and GetPtr give changes only in the last step of a Load that
\* returns nil.
C27_FailedLoadKeepsData ==
    [][ /\ cfg'.data # cfg.data =>
              cfg.pc = "store" /\ cfg'.pc = "idle" /\ cfg'.returned = "ok"
        /\ (cfg'.pc = "idle" /\ cfg'.returned = "error") => cfg'.data = cfg'.before
        /\ (cfg.nload = 0 \/ (cfg.nload = 1 /\ cfg.pc # "idle")) => cfg.data = ZeroConfig
      ]_vars

\* a first Load stored a configuration; the second, with another merge
\* function, failed in the merge of its second loader after the first
\* loader's value had been merged
C27_Witness ==
    /\ Returned
    /\ cfg.returned = "error"
    /\ cfg.nload = 2
    /\ Head(cfg.out).name = "merge loader[1] failed"
    /\ cfg.accumulated # ZeroConfig
    /\ cfg.accumulated # Get
    /\ Get = cfg.before
    /\ Get.f.Server = ServerConfig("localhost", 9090)

\* What the nested calls of the interceptors ics around the handler do on
\* context c, from position k on: the pair returned and the log.
RECURSIVE Run(_, _, _)
Run(ics, k, c) ==
    IF k >= Len(ics)
    THEN [ret |-> HandlerReturn(terminal, c), calls |-> <<HandlerEv>>]
    ELSE LET ic == ics[k + 1]
         IN IF CallsNext(ic, c)
            THEN LET inner == Run(ics, k + 1, PreContext(ic, c))
                 IN [ret   |-> PostReturn(ic, inner.ret),
                     calls |-> <<Enter(ic.id)>> \o inner.calls \o <<Exit(ic.id)>>]
            ELSE [ret |-> ShortCircuitReturn(ic, c), calls |-> <<Enter(ic.id)>>]

\* C28: once Chain has returned, whatever the caller stores in the elements
\* of the slice it passed (nil, the elements reordered, other interceptors),
\* the pipeline still holds the interceptors it was built from and every
\* invocation enters exactly those, in their original order, and returns
\* what their nested calls return.
C28_CapturedAtConstruction ==
    cpc = "returned" =>
        /\ Captured(pipeline) = caller.passed
        /\ Innermost(pipeline) = H
        /\ \A j \in 1..Len(stack) :
              IF j <= Len(caller.passed)
              THEN stack[j].f = "interceptor" /\ stack[j].ic = caller.passed[j]
              ELSE stack[j].f = "handler"
        /\ status = "running" => IsPrefix(calls, Run(caller.passed, 0, ctx0).calls)
        /\ Done => /\ calls = Run(caller.passed, 0, ctx0).calls
                   /\ ret = Run(caller.passed, 0, ctx0).ret

\* after one invocation the caller set element 0 to nil and element 1 to a
\* new interceptor; the next invocation ran both original interceptors
C28_Witness ==
    /\ Done
    /\ ninv = 2
    /\ caller.writes = 2
    /\ caller.ninv = 1
    /\ Len(caller.passed) = 2
    /\ interceptors[1] = NoInterceptor
    /\ interceptors[2] = Interceptor(102, "short")
    /\ calls = <<Enter(0), Enter(1), HandlerEv, Exit(1), Exit(0)>>

\* how often the current invocation has entered the layer at position k
\* (the handler for k = n): its body has run, or its frame waits to run
Entered(k) ==
    (IF k = n THEN Count(HandlerEv) ELSE Count(Enter(k)))
        + (IF Len(stack) = k + 1 /\ stack[k + 1].pc = "pre" THEN 1 ELSE 0)

\* how often the interceptor at position k has called its next-function in
\* the current invocation: the activations that called it a first time, and
\* the calls after the first
NextCalled(k) ==
    Cardinality({ j \in 1..Len(seen) :
                    seen[j].id = k /\ CallsNext(interceptors[k + 1], seen[j].ctx) })
        + Count(Again(k))

\* C29: in every invocation the layer at position k+1 (the handler after the
\* last interceptor) is entered exactly as often as the interceptor at
\* position k has called its next-function, and the first layer once; the
\* frames on the stack are those of positions 0, 1, 2, ... in this order, so
\* no call of a next-function enters its own or an outer layer; and an
\* invocation that has started returns.
C29_NoCallsOfItsOwn ==
    /\ [](status \in {"running", "returned"} =>
            /\ Entered(0) = 1
            /\ \A k \in 0..(n - 1) : Entered(k + 1) = NextCalled(k)
            /\ StackShape)
    /\ (status = "running") ~> (status = "returned")

\* two interceptors that each call next two times: the second is entered
\* two times and the handler four times
C29_Witness ==
    /\ Done
    /\ n = 2
    /\ interceptors[1].kind = "twice"
    /\ interceptors[2].kind = "twice"
    /\ NextCalled(0) = 2
    /\ Entered(1) = 2
    /\ NextCalled(1) = 4
    /\ Entered(2) = 4
    /\ Count(HandlerEv) = 4

\* the keys the layers of the current invocation have attached so far
Attached ==
    { Key(interceptors[seen[j].id + 1]) :
        j \in { m \in 1..Len(seen) :
                  seen[m].id >= 0 /\ interceptors[seen[m].id + 1].kind = "setvalue" } }
        \cup (IF terminal = "attach" /\ Count(HandlerEv) > 0 THEN {"handler-key"} ELSE {})

\* C30: the layers of one invocation work on the one Request Context
\* instance the caller passed: from the step in which an interceptor or the
\* handler attaches a value by assigning ctx.Context, the value is in that
\* instance in every later state of the invocation, so while an outer
\* interceptor runs its post-next logic and when the caller has the result;
\* the instance holds nothing but what the caller put in it and what the
\* layers attached.
C30_SharedContext ==
    status \in {"running", "returned"} =>
        /\ Attached \subseteq ctx.Context.values
        /\ ctx.Context.values \subseteq
              ctx0.Context.values \cup Attached \cup {"interceptor-key"}
        /\ ctx0.Context.values \subseteq ctx.Context.values
        /\ ctx.Protocol = ctx0.Protocol /\ ctx.Method = ctx0.Method /\ ctx.Meta = ctx0.Meta

\* the outer interceptor is in its post-next logic and the context holds the
\* values the inner interceptor and the handler attached
C30_Witness ==
    /\ status = "running"
    /\ n = 2
    /\ Len(stack) = 1
    /\ Top.pc = "post"
    /\ Top.ic.kind = "pass"
    /\ interceptors[2].kind = "setvalue"
    /\ terminal = "attach"
    /\ ctx0.Context.values = {}
    /\ {"key2", "handler-key"} \subseteq ctx.Context.values

\* the caller has the result and its context holds the attached values
C30_CallerWitness ==
    /\ Done
    /\ ctx0.Context.values = {}
    /\ Attached = {"key1", "handler-key"}
    /\ Attached \subseteq ctx.Context.values

====
